---------------------------- MODULE Spec2Model ----------------------------
(***************************************************************************)
(* Model of the iMessage exporter (src/imessage_export.py): the message    *)
(* store it reads, the two files it persists (imessage_data.json and       *)
(* contact_mappings.json) and its commands --full, --update, --contacts    *)
(* and --attachments.                                                      *)
(*                                                                         *)
(* Representation.                                                         *)
(*   - identifiers and names (str) are sequences of one-character strings; *)
(*     Python's None is the one-element sequence None.                     *)
(*   - message text (str) is a sequence of code points, a blob (bytes) a   *)
(*     sequence of 0..255; None is NoText.                                 *)
(*   - a timestamp is an integer number of hours.  The store keeps UTC     *)
(*     (message.date); the query renders it in local time, so a message's  *)
(*     'date' is its UTC hour plus the machine's offset tz.                *)
(*   - a dict is a function; a list is a sequence.                         *)
(***************************************************************************)
EXTENDS Integers, Sequences, FiniteSets, TLC

(***************************************************************************)
(* Bounds of the model.                                                    *)
(***************************************************************************)
MaxRows == 3
MaxEdits == 1

(***************************************************************************)
(* Strings.                                                                *)
(***************************************************************************)
None == <<"None">>
NoText == <<-1>>

Truthy(s) == s # None /\ s # <<>>
TruthyText(t) == t # NoText /\ t # <<>>

\* Python evaluates an expression once, when it assigns it to a name or
\* passes it to a function.  With(v, F) is F applied to the value of v.
With(v, F(_)) == CHOOSE r \in {F(x) : x \in {v}} : TRUE

Min(S) == With(S, LAMBDA T : CHOOSE x \in T : \A y \in T : x <= y)
Max(S) == With(S, LAMBDA T : CHOOSE x \in T : \A y \in T : x >= y)

IsDigit(c) == c \in {"0", "1", "2", "3", "4", "5", "6", "7", "8", "9"}

\* re.sub(r'\D', '', s)
Digits(s) == SelectSeq(s, IsDigit)

\* str.startswith
StartsWith(s, p) == Len(s) >= Len(p) /\ SubSeq(s, 1, Len(p)) = p

\* c in s
Contains(s, c) == \E i \in 1..Len(s) : s[i] = c

\* s[-10:]
Last10(s) == IF Len(s) <= 10 THEN s ELSE SubSeq(s, Len(s) - 9, Len(s))

\* str(phone): None prints as the four letters of "None"
Str(s) == IF s = None THEN <<"N", "o", "n", "e">> ELSE s

\* s.replace(c, '') for a single character c
Remove(s, c) == SelectSeq(s, LAMBDA x : x # c)

\* str.isdigit(): non-empty and all digits
IsDigitStr(s) == s # <<>> /\ \A i \in 1..Len(s) : IsDigit(s[i])

\* the decimal digits of a message id, as in f"unknown_{message_id}"
RECURSIVE IntStr(_)
IntStr(n) ==
    LET d == <<"0", "1", "2", "3", "4", "5", "6", "7", "8", "9">>[(n % 10) + 1]
    IN  IF n < 10 THEN <<d>> ELSE IntStr(n \div 10) \o <<d>>

(***************************************************************************)
(* PhoneNormalizer and IdentityResolver.                                   *)
(***************************************************************************)
clean_phone_number_or_empty(phone) ==
    IF ~Truthy(phone) THEN <<>>
    ELSE With(Digits(Str(phone)), LAMBDA cleaned0 :
            LET cleaned == IF Len(cleaned0) = 10 THEN <<"1">> \o cleaned0 ELSE cleaned0
            IN  IF cleaned # <<>> THEN <<"+">> \o cleaned ELSE <<>>)

clean_phone_number_bare(phone) ==
    IF ~Truthy(phone) THEN <<>>
    ELSE With(Digits(Str(phone)), LAMBDA cleaned :
            IF cleaned # <<>> THEN <<"+">> \o cleaned ELSE phone)

\* clean_phone_number of imessage_export.py
clean_phone_number(phone) ==
    IF ~Truthy(phone) THEN <<>>
    ELSE With(Digits(Str(phone)), LAMBDA cleaned0 :
            LET cleaned == IF Len(cleaned0) = 10 THEN <<"1">> \o cleaned0 ELSE cleaned0
            IN  IF cleaned # <<>> THEN <<"+">> \o cleaned ELSE phone)

\* mappings.get("phone_to_name", {}) is a function from keys to names
HasKey(d, k) == k \in DOMAIN d

resolve_contact_name_four(phone, mappings) ==
    LET phone_to_name == mappings.phone_to_name
    IN  IF HasKey(phone_to_name, phone) THEN phone_to_name[phone]
        ELSE
          With(Digits(Str(phone)), LAMBDA cleaned0 :
          With(IF Len(cleaned0) = 10 THEN <<"1">> \o cleaned0 ELSE cleaned0, LAMBDA cleaned :
          With(<< cleaned,
                  <<"+">> \o cleaned,
                  IF Len(cleaned) >= 10 THEN Last10(cleaned) ELSE None >>,
               LAMBDA variants :
             LET hits == {i \in 1..3 : Truthy(variants[i])
                                        /\ HasKey(phone_to_name, variants[i])}
             IN  IF hits # {} THEN phone_to_name[variants[Min(hits)]] ELSE None)))

resolve_contact_name(phone, mappings) ==
    LET phone_to_name == mappings.phone_to_name
    IN  IF HasKey(phone_to_name, phone) THEN phone_to_name[phone]
        ELSE
          With(Digits(Str(phone)), LAMBDA cleaned0 :
          With(IF Len(cleaned0) = 10 THEN <<"1">> \o cleaned0 ELSE cleaned0, LAMBDA cleaned :
          With(<< cleaned,
                  <<"+">> \o cleaned,
                  IF Len(cleaned) >= 10 THEN <<"+", "1">> \o Last10(cleaned) ELSE None,
                  IF Len(cleaned) >= 10 THEN Last10(cleaned) ELSE None >>,
               LAMBDA variants :
             LET hits == {i \in 1..4 : Truthy(variants[i])
                                        /\ HasKey(phone_to_name, variants[i])}
             IN  IF hits # {} THEN phone_to_name[variants[Min(hits)]] ELSE None)))

\* returns <<display_name, participants>>
get_group_chat_info(chat_identifier, mappings) ==
    LET group_chats == mappings.group_chats
    IN  IF HasKey(group_chats, chat_identifier)
        THEN LET info == group_chats[chat_identifier]
                 display_name == IF Truthy(info.display_name) THEN info.display_name
                                 ELSE info.resolved_display_name
             IN  <<display_name, info.participants>>
        ELSE <<None, <<>>>>

(***************************************************************************)
(* BlobTextDecoder.  Positions are Python's (0-based): At(blob, i) is      *)
(* blob[i].                                                                *)
(***************************************************************************)
At(blob, i) == blob[i + 1]

\* blob[a:b] for 0 <= a <= b <= len(blob)
Slice(blob, a, b) == SubSeq(blob, a + 1, b)

\* bytes.find(pattern, start): the lowest index at or after start, or -1
Find(blob, pattern, start) ==
    With({i \in start..(Len(blob) - Len(pattern)) :
             \A k \in 1..Len(pattern) : blob[i + k] = pattern[k]},
         LAMBDA hits : IF hits = {} THEN -1 ELSE Min(hits))

NSString == <<78, 83, 83, 116, 114, 105, 110, 103>>

patterns == << <<103, 1, 148, 132, 1, 43>>,
               <<132, 1, 43>>,
               <<1, 148, 132, 1, 43>>,
               <<1, 149, 132, 1, 43>> >>

Invalid == <<-2>>

IsCont(b) == b >= 128 /\ b <= 191

\* bytes.decode('utf-8', errors='strict'): the code points, or Invalid
RECURSIVE Utf8Decode(_)
Utf8Decode(bs) ==
    IF bs = <<>> THEN <<>>
    ELSE
      LET n  == Len(bs)
          b0 == bs[1]
          b1 == IF n >= 2 THEN bs[2] ELSE -1
          b2 == IF n >= 3 THEN bs[3] ELSE -1
          b3 == IF n >= 4 THEN bs[4] ELSE -1
          width ==
            IF b0 < 128 THEN 1
            ELSE IF b0 >= 194 /\ b0 <= 223 /\ IsCont(b1) THEN 2
            ELSE IF b0 >= 224 /\ b0 <= 239 /\ IsCont(b1) /\ IsCont(b2)
                    /\ (b0 = 224 => b1 >= 160) /\ (b0 = 237 => b1 <= 159) THEN 3
            ELSE IF b0 >= 240 /\ b0 <= 244 /\ IsCont(b1) /\ IsCont(b2) /\ IsCont(b3)
                    /\ (b0 = 240 => b1 >= 144) /\ (b0 = 244 => b1 <= 143) THEN 4
            ELSE 0
          cp ==
            IF width = 1 THEN b0
            ELSE IF width = 2 THEN (b0 - 192) * 64 + (b1 - 128)
            ELSE IF width = 3 THEN (b0 - 224) * 4096 + (b1 - 128) * 64 + (b2 - 128)
            ELSE (b0 - 240) * 262144 + (b1 - 128) * 4096 + (b2 - 128) * 64 + (b3 - 128)
      IN  IF width = 0 THEN Invalid
          ELSE With(SubSeq(bs, width + 1, n), LAMBDA tail :
               With(Utf8Decode(tail), LAMBDA rest :
                  IF rest = Invalid THEN Invalid ELSE <<cp>> \o rest))

\* the characters str.strip() removes (Unicode white space)
IsSpace(c) ==
    \/ c \in {9, 10, 11, 12, 13, 28, 29, 30, 31, 32, 133, 160, 5760}
    \/ c >= 8192 /\ c <= 8202
    \/ c \in {8232, 8233, 8239, 8287, 12288}

Strip(t) ==
    LET keep == {i \in 1..Len(t) : ~IsSpace(t[i])}
    IN  IF keep = {} THEN <<>> ELSE SubSeq(t, Min(keep), Max(keep))

CleanTextSkipping(text) ==
    With(SelectSeq(text, LAMBDA c : c >= 32 \/ c \in {10, 9, 13}), Strip)

\* the loop that copies characters up to the first control character
CleanText(text) ==
    LET ctl == {i \in 1..Len(text) : text[i] < 32 /\ text[i] \notin {10, 9, 13}}
    IN  With(IF ctl = {} THEN text ELSE SubSeq(text, 1, Min(ctl) - 1), Strip)

\* str.isalnum() of one character, for the code points below 256
IsAlnum(c) ==
    \/ c >= 48 /\ c <= 57
    \/ c >= 65 /\ c <= 90
    \/ c >= 97 /\ c <= 122
    \/ c \in {170, 178, 179, 181, 185, 186, 188, 189, 190}
    \/ c >= 192 /\ c <= 255 /\ c \notin {215, 247}

TryPatternNoSeparator(blob, nsstring_pos, pattern) ==
    With(Find(blob, pattern, nsstring_pos), LAMBDA pattern_pos :
    LET length_pos  == pattern_pos + Len(pattern)
        n           == Len(blob)
    IN  IF pattern_pos = -1 \/ ~(length_pos < n) THEN NoText
        ELSE
          LET length_byte == At(blob, length_pos)
              num_length_bytes == length_byte % 128
              shape == IF length_byte < 128 THEN "short"
                       ELSE IF num_length_bytes = 1 /\ length_pos + 2 < n THEN "one"
                       ELSE IF num_length_bytes = 2 /\ length_pos + 3 < n THEN "two"
                       ELSE "skip"
              text_length == IF shape = "short" THEN length_byte
                             ELSE IF shape = "one" THEN At(blob, length_pos + 1)
                             ELSE IF shape = "two"
                                  THEN At(blob, length_pos + 1) + At(blob, length_pos + 2) * 256
                             ELSE 0
              text_start == IF shape = "short" THEN length_pos + 1
                            ELSE IF shape = "one" THEN length_pos + 2
                            ELSE length_pos + 3
          IN  IF shape = "skip" THEN NoText
              ELSE IF 1 <= text_length /\ text_length <= 10000 /\ text_start + text_length <= n
              THEN With(Slice(blob, text_start, text_start + text_length),
                        LAMBDA text_bytes :
                   With(Utf8Decode(text_bytes), LAMBDA text :
                      IF text = Invalid THEN NoText
                      ELSE With(CleanText(text), LAMBDA clean_text :
                              IF Len(clean_text) > 0 THEN clean_text ELSE NoText)))
              ELSE NoText)

\* one iteration of "for pattern, length_offset in patterns": a text, or
\* NoText when the loop goes on to the next pattern
TryPattern(blob, nsstring_pos, pattern) ==
    With(Find(blob, pattern, nsstring_pos), LAMBDA pattern_pos :
    LET length_pos  == pattern_pos + Len(pattern)
        n           == Len(blob)
    IN  IF pattern_pos = -1 \/ ~(length_pos < n) THEN NoText
        ELSE
          LET length_byte == At(blob, length_pos)
              num_length_bytes == length_byte % 128
              shape == IF length_byte < 128 THEN "short"
                       ELSE IF num_length_bytes = 1 /\ length_pos + 2 < n THEN "one"
                       ELSE IF num_length_bytes = 2 /\ length_pos + 3 < n THEN "two"
                       ELSE "skip"
              text_length == IF shape = "short" THEN length_byte
                             ELSE IF shape = "one" THEN At(blob, length_pos + 1)
                             ELSE IF shape = "two"
                                  THEN At(blob, length_pos + 1) + At(blob, length_pos + 2) * 256
                             ELSE 0
              text_start == IF shape = "short" THEN length_pos + 1
                            ELSE IF shape = "one" THEN length_pos + 3
                            ELSE length_pos + 4
          IN  IF shape = "skip" THEN NoText
              ELSE IF 1 <= text_length /\ text_length <= 10000 /\ text_start + text_length <= n
              THEN With(Slice(blob, text_start, text_start + text_length),
                        LAMBDA text_bytes :
                   With(Utf8Decode(text_bytes), LAMBDA text :
                      IF text = Invalid THEN NoText
                      ELSE With(CleanText(text), LAMBDA clean_text :
                              IF Len(clean_text) > 0 THEN clean_text ELSE NoText)))
              ELSE NoText)

\* one iteration of the fallback scan at offset i
TryScan(blob, i) ==
    LET potential_length == At(blob, i)
        text_start == i + 1
    IN  IF 2 <= potential_length /\ potential_length <= 200
           /\ text_start + potential_length <= Len(blob)
        THEN With(Slice(blob, text_start, text_start + potential_length),
                  LAMBDA text_bytes :
             With(Utf8Decode(text_bytes), LAMBDA text :
                IF text = Invalid THEN NoText
                ELSE IF (\E k \in 1..Len(text) : IsAlnum(text[k]))
                        /\ ~StartsWith(text, <<78, 83>>)
                        /\ ~StartsWith(text, <<95, 95>>)
                THEN With(CleanText(text), LAMBDA clean_text :
                        IF Len(clean_text) >= 2 THEN clean_text ELSE NoText)
                ELSE NoText))
        ELSE NoText

FallbackScanUnbounded(blob, nsstring_pos) ==
    LET search_start == nsstring_pos + 8
        scan_end == Len(blob) - 10
    IN  With([i \in search_start..(scan_end - 1) |-> TryScan(blob, i)], LAMBDA scanned :
           LET found == {i \in DOMAIN scanned : scanned[i] # NoText}
           IN  IF found # {} THEN scanned[Min(found)] ELSE NoText)

\* the fallback scan: the text of the first offset that yields one
FallbackScan(blob, nsstring_pos) ==
    LET search_start == nsstring_pos + 8
        scan_end == Min({search_start + 100, Len(blob) - 10})
    IN  With([i \in search_start..(scan_end - 1) |-> TryScan(blob, i)], LAMBDA scanned :
           LET found == {i \in DOMAIN scanned : scanned[i] # NoText}
           IN  IF found # {} THEN scanned[Min(found)] ELSE NoText)

decode_attributed_body_unanchored(blob) ==
    IF ~TruthyText(blob) THEN NoText
    ELSE
      With(Max({0, Find(blob, NSString, 0)}), LAMBDA nsstring_pos :
         IF FALSE THEN NoText
         ELSE With([p \in 1..Len(patterns) |-> TryPattern(blob, nsstring_pos, patterns[p])],
                   LAMBDA tried :
                 LET found == {p \in 1..Len(patterns) : tried[p] # NoText}
                 IN  IF found # {} THEN tried[Min(found)]
                     ELSE FallbackScan(blob, nsstring_pos)))

\* the text of the first pattern that yields one, else the fallback scan
decode_attributed_body(blob) ==
    IF ~TruthyText(blob) THEN NoText
    ELSE
      With(Find(blob, NSString, 0), LAMBDA nsstring_pos :
         IF nsstring_pos = -1 THEN NoText
         ELSE With([p \in 1..Len(patterns) |-> TryPattern(blob, nsstring_pos, patterns[p])],
                   LAMBDA tried :
                 LET found == {p \in 1..Len(patterns) : tried[p] # NoText}
                 IN  IF found # {} THEN tried[Min(found)]
                     ELSE FallbackScan(blob, nsstring_pos)))

(***************************************************************************)
(* The source query of extract_messages.  A row of the store is a record   *)
(*   [id, text, attributed_body, is_from_me, date, contact_identifier,     *)
(*    chat_identifier, chat_display_name, edited]                          *)
(* with date the UTC hour and edited the store's mark of an edited         *)
(* message, which the query does not select.  since is the 'since_date'    *)
(* of the caller, an hour, or NoSince.                                     *)
(***************************************************************************)
MESSAGE_LIMIT == 500000
UPDATE_LIMIT == 10000

NoSince == <<>>

\* m.date is NULL: datetime(NULL ...) is NULL and the row's date is None.
\* It is an hour below every hour, since SQLite sorts NULL before every
\* value (last in ORDER BY m.date DESC).
NoDate == -100

\* WHERE m.date > apple_epoch (the caller's local hour, read as if it were UTC)
Selected(db, since) ==
    {i \in 1..Len(db) :
        since = NoSince \/ (db[i].date # NoDate /\ db[i].date > since[1])}

\* ORDER BY m.date DESC: row i comes before row j.  SQLite leaves the order
\* of rows with equal dates open; they come out in the order of the scan,
\* by ascending ROWID, or in the order of a reverse index scan, by
\* descending ROWID.
Before(db, i, j, ties) ==
    \/ db[i].date > db[j].date
    \/ /\ db[i].date = db[j].date
       /\ IF ties = "asc" THEN i < j ELSE i > j

\* ... LIMIT ?: the selected rows in order, cut to the first 'limit' rows,
\* with datetime(m.date / 1000000000 + ..., 'unixepoch', 'localtime')
QueryResult(db, since, limit, tz, ties) ==
    With(Selected(db, since), LAMBDA sel :
       LET rank(i) == 1 + Cardinality({j \in sel : Before(db, j, i, ties)})
           at(k) == CHOOSE i \in sel : rank(i) = k
           selected(row) ==
              [id |-> row.id,
               text |-> row.text,
               attributed_body |-> row.attributed_body,
               is_from_me |-> row.is_from_me,
               date |-> IF row.date = NoDate THEN NoDate ELSE row.date + tz,
               contact_identifier |-> row.contact_identifier,
               chat_identifier |-> row.chat_identifier,
               chat_display_name |-> row.chat_display_name]
       IN  [k \in 1..Min({Cardinality(sel), limit}) |-> With(db[at(k)], selected)])

QueryResults(db, since, limit, tz) ==
    With(since, LAMBDA since_date :
       {QueryResult(db, since_date, limit, tz, ties) : ties \in {"asc", "desc"}})

(***************************************************************************)
(* ConversationAssembler: extract_messages.                                *)
(***************************************************************************)
\* Variant of MessageContent that never runs the decoder; the content claim
\* must fail with it.
MessageContentTextOnly(row) == row.text

\* "message_content = text; if not message_content and attributed_body: ..."
MessageContent(row) ==
    IF ~TruthyText(row.text) /\ TruthyText(row.attributed_body)
    THEN decode_attributed_body(row.attributed_body)
    ELSE row.text

\* chat_identifier and chat_identifier.startswith('chat')
IsGroupChat(row) ==
    Truthy(row.chat_identifier) /\ StartsWith(row.chat_identifier, <<"c", "h", "a", "t">>)

\* Variant of ContactKey that prefers the handle to the group's thread key;
\* the keying claim must fail with it.
ContactKeyHandleFirst(row) ==
    IF Truthy(row.contact_identifier) THEN row.contact_identifier
    ELSE IF Truthy(row.chat_identifier) THEN row.chat_identifier
    ELSE <<"u", "n", "k", "n", "o", "w", "n", "_">> \o IntStr(row.id)

ContactKey(row) ==
    IF IsGroupChat(row) THEN row.chat_identifier
    ELSE IF Truthy(row.contact_identifier) THEN row.contact_identifier
    ELSE IF Truthy(row.chat_identifier) THEN row.chat_identifier
    ELSE <<"u", "n", "k", "n", "o", "w", "n", "_">> \o IntStr(row.id)

\* the test that decides whether an identifier is shown as a cleaned phone
LooksLikePhone(s) ==
    \/ StartsWith(s, <<"+">>)
    \/ IsDigitStr(Remove(Remove(Remove(Remove(s, "-"), "("), ")"), " "))

\* Variant of ContactName in which the display name the row carries comes
\* before the name of the mappings for a one-to-one thread too; the
\* precedence claim must fail with it.
ContactNameExplicitFirst(row, resolved_name) ==
    IF Truthy(row.chat_display_name) THEN row.chat_display_name
    ELSE IF IsGroupChat(row) THEN ContactKey(row)
    ELSE IF Truthy(resolved_name) THEN resolved_name
    ELSE IF Truthy(row.contact_identifier)
         THEN IF LooksLikePhone(row.contact_identifier)
              THEN clean_phone_number(row.contact_identifier)
              ELSE row.contact_identifier
    ELSE ContactKey(row)

\* 'name' of a first sighting; resolved_name is what resolve_contact_name
\* returned for the handle of a one-to-one thread
ContactName(row, resolved_name) ==
    IF IsGroupChat(row)
    THEN IF Truthy(row.chat_display_name) THEN row.chat_display_name
         ELSE ContactKey(row)
    ELSE IF Truthy(resolved_name) THEN resolved_name
    ELSE IF Truthy(row.chat_display_name) THEN row.chat_display_name
    ELSE IF Truthy(row.contact_identifier)
         THEN IF LooksLikePhone(row.contact_identifier)
              THEN clean_phone_number(row.contact_identifier)
              ELSE row.contact_identifier
    ELSE ContactKey(row)

\* the contact_data of a first sighting
NewContact(row, mappings, contact_id_counter) ==
    With(get_group_chat_info(row.chat_identifier, mappings), LAMBDA info :
    With(IF IsGroupChat(row) THEN None
         ELSE resolve_contact_name(row.contact_identifier, mappings),
         LAMBDA resolved_name :
    LET mapped_display_name == info[1]
        name == ContactName(row, resolved_name)
        display_name ==
          IF IsGroupChat(row) /\ ~Truthy(row.chat_display_name) /\ Truthy(mapped_display_name)
          THEN mapped_display_name ELSE None
    IN  [id |-> contact_id_counter,
         name |-> name,
         phone |-> IF Truthy(row.contact_identifier) THEN row.contact_identifier
                   ELSE IF Truthy(row.chat_identifier) THEN row.chat_identifier
                   ELSE <<>>,
         messageCount |-> 0,
         isGroupChat |-> IsGroupChat(row),
         displayName |-> display_name,
         participants |-> IF IsGroupChat(row) THEN info[2] ELSE <<>>]))

NewMessage(row, message_content, contactId) ==
    [id |-> row.id,
     contactId |-> contactId,
     content |-> message_content,
     date |-> row.date,
     isFromMe |-> row.is_from_me]

\* The loop "for row in results".  acc holds the dict 'contacts' as two
\* parallel sequences (keys, contacts), in insertion order, and 'messages'.
ProcessRow(acc, row, mappings) ==
    With(MessageContent(row), LAMBDA message_content :
    IF ~TruthyText(message_content) THEN acc
    ELSE
      With(ContactKey(row), LAMBDA key :
      With({k \in 1..Len(acc.keys) : acc.keys[k] = key}, LAMBDA known :
      With(IF known = {}
           THEN Append(acc.contacts, NewContact(row, mappings, Len(acc.keys) + 1))
           ELSE acc.contacts,
           LAMBDA cs1 :
         LET keys1 == IF known = {} THEN Append(acc.keys, key) ELSE acc.keys
             at    == IF known = {} THEN Len(keys1) ELSE Min(known)
         IN  [keys |-> keys1,
              contacts |-> [cs1 EXCEPT ![at].messageCount = @ + 1],
              messages |-> Append(acc.messages,
                                  NewMessage(row, message_content, cs1[at].id))]))))

RECURSIVE ProcessRows(_, _, _, _)
ProcessRows(acc, rows, k, mappings) ==
    IF k > Len(rows) THEN acc
    ELSE With(ProcessRow(acc, rows[k], mappings),
              LAMBDA acc1 : ProcessRows(acc1, rows, k + 1, mappings))

\* list.sort(key=lambda x: x['messageCount'], reverse=True): stable
RECURSIVE SortByCount(_)
SortByCount(cs) ==
    IF Len(cs) <= 1 THEN cs
    ELSE With(SubSeq(cs, 1, Len(cs) - 1), LAMBDA head :
         With(SortByCount(head), LAMBDA sorted :
            LET c      == cs[Len(cs)]
                before == {k \in 1..Len(sorted) : sorted[k].messageCount >= c.messageCount}
                n      == IF before = {} THEN 0 ELSE Max(before)
            IN  SubSeq(sorted, 1, n) \o <<c>> \o SubSeq(sorted, n + 1, Len(sorted))))

RECURSIVE SumSeq(_)
SumSeq(s) == IF s = <<>> THEN 0 ELSE s[1] + SumSeq(Tail(s))

\* avgMessageLength is kept as the exact fraction <<sum, count>>; 0 is <<0, 1>>
calculate_statistics_every_hour(messages, contacts) ==
    LET n == Len(messages)
        messages_sent == Cardinality({k \in 1..n : messages[k].isFromMe})
        dates == {messages[k].date : k \in 1..n} \ {NoDate}
        lengths == [k \in 1..n |-> Len(messages[k].content)]
        counted == Cardinality({k \in 1..n : messages[k].content # <<>>})
    IN  [totalMessages |-> n,
         messagesSent |-> messages_sent,
         messagesReceived |-> n - messages_sent,
         uniqueContacts |-> Len(contacts),
         avgMessageLength |-> IF counted = 0 THEN <<0, 1>> ELSE <<SumSeq(lengths), counted>>,
         dateRange |-> [start |-> IF dates = {} THEN <<>> ELSE <<Min(dates)>>,
                        end   |-> IF dates = {} THEN <<>> ELSE <<Max(dates)>>],
         hourlyDistribution |->
            [h \in 0..23 |-> Cardinality({k \in 1..n : messages[k].date % 24 = h})]]

calculate_statistics(messages, contacts) ==
    LET n == Len(messages)
        messages_sent == Cardinality({k \in 1..n : messages[k].isFromMe})
        dates == {messages[k].date : k \in 1..n} \ {NoDate}
        lengths == [k \in 1..n |-> Len(messages[k].content)]
        counted == Cardinality({k \in 1..n : messages[k].content # <<>>})
    IN  [totalMessages |-> n,
         messagesSent |-> messages_sent,
         messagesReceived |-> n - messages_sent,
         uniqueContacts |-> Len(contacts),
         avgMessageLength |-> IF counted = 0 THEN <<0, 1>> ELSE <<SumSeq(lengths), counted>>,
         dateRange |-> [start |-> IF dates = {} THEN <<>> ELSE <<Min(dates)>>,
                        end   |-> IF dates = {} THEN <<>> ELSE <<Max(dates)>>],
         hourlyDistribution |->
            [h \in 0..23 |->
                Cardinality({k \in 1..n : /\ messages[k].date # NoDate
                                          /\ messages[k].date % 24 = h})]]

\* extract_messages on the rows the query returned
extract_messages(rows, mappings) ==
    With(ProcessRows([keys |-> <<>>, contacts |-> <<>>, messages |-> <<>>],
                     rows, 1, mappings),
         LAMBDA acc :
    With(SortByCount(acc.contacts), LAMBDA contacts_list :
       [contacts |-> contacts_list,
        messages |-> acc.messages,
        images |-> <<>>,
        statistics |-> calculate_statistics(acc.messages, contacts_list)]))

(***************************************************************************)
(* MappingStore updates.                                                   *)
(***************************************************************************)
\* d[k] = v
Put(d, k, v) == (k :> v) @@ d

\* d.get(k): None when the key is absent
Get(d, k) == IF HasKey(d, k) THEN d[k] ELSE None

\* "phone_to_name[phone] = name" and its cleaned and '+'-prefixed forms
LearnPhone(phone_to_name, phone, name) ==
    With(Digits(phone), LAMBDA cleaned :
       LET d1 == Put(phone_to_name, phone, name)
       IN  IF cleaned # <<>>
           THEN Put(Put(d1, cleaned, name), <<"+">> \o cleaned, name)
           ELSE d1)

\* name of one participant in resolve_participant_names
ParticipantName(phone_to_name, participant) ==
    With(Digits(Str(participant)), LAMBDA cleaned0 :
    With(IF Len(cleaned0) = 10 THEN <<"1">> \o cleaned0 ELSE cleaned0, LAMBDA cleaned :
       LET direct == Get(phone_to_name, participant)
           second == IF Truthy(Get(phone_to_name, cleaned)) THEN Get(phone_to_name, cleaned)
                     ELSE Get(phone_to_name, <<"+">> \o cleaned)
       IN  IF Truthy(direct) THEN direct
           ELSE IF Truthy(second) THEN second
           ELSE IF Len(cleaned) >= 10 THEN Get(phone_to_name, Last10(cleaned))
           ELSE second))

\* ", ".join(names)
RECURSIVE Join(_)
Join(names) ==
    IF names = <<>> THEN <<>>
    ELSE IF Len(names) = 1 THEN names[1]
    ELSE names[1] \o <<",", " ">> \o Join(Tail(names))

ResolveChatInfoAll(chat_info, phone_to_name) ==
    IF Truthy(chat_info.display_name) THEN chat_info
    ELSE
      With(SelectSeq([k \in 1..Len(chat_info.participants) |->
                         ParticipantName(phone_to_name, chat_info.participants[k])],
                     Truthy),
           LAMBDA resolved_names :
              IF resolved_names = <<>> THEN chat_info
              ELSE [chat_info EXCEPT !.resolved_display_name = Join(resolved_names)])

\* resolve_participant_names for one chat_info
ResolveChatInfo(chat_info, phone_to_name) ==
    IF Truthy(chat_info.display_name) THEN chat_info
    ELSE
      With(SelectSeq([k \in 1..Len(chat_info.participants) |->
                         ParticipantName(phone_to_name, chat_info.participants[k])],
                     Truthy),
           LAMBDA resolved_names :
         LET n == Len(resolved_names)
             first4 == Join(SubSeq(resolved_names, 1, Min({4, n})))
         IN  IF n = 0 THEN chat_info
             ELSE [chat_info EXCEPT !.resolved_display_name =
                      IF n > 4 THEN first4 \o <<" ", "+">> \o IntStr(n - 4)
                                           \o <<" ", "m", "o", "r", "e">>
                      ELSE first4])

resolve_participant_names(group_chats, phone_to_name) ==
    [c \in DOMAIN group_chats |-> ResolveChatInfo(group_chats[c], phone_to_name)]

\* the test of "Step 4" on a contact's name: it is a resolved name
IsResolvedName(name) ==
    /\ Truthy(name)
    /\ ~StartsWith(name, <<"+">>)
    /\ ~StartsWith(name, <<"c", "h", "a", "t">>)
    /\ ~Contains(name, "@")

\* "Step 4: Saving new contact mappings", over contacts[k..]
RECURSIVE SaveNewMappings(_, _, _)
SaveNewMappings(phone_to_name, contacts, k) ==
    IF k > Len(contacts) THEN phone_to_name
    ELSE LET c == contacts[k]
             learn == /\ ~c.isGroupChat
                      /\ IsResolvedName(c.name)
                      /\ Truthy(c.phone)
                      /\ ~HasKey(phone_to_name, c.phone)
         IN  With(IF learn THEN LearnPhone(phone_to_name, c.phone, c.name)
                  ELSE phone_to_name,
                  LAMBDA learned : SaveNewMappings(learned, contacts, k + 1))

(***************************************************************************)
(* The contact-directory oracle (resolve_contacts_via_applescript).        *)
(* directory is the content of the contact directory; answers is the set   *)
(* of identifiers for which the call of this run returns a name (any other *)
(* call fails or times out).                                               *)
(* The result, the dict 'resolved', is a sequence of <<phone, name>> in    *)
(* insertion order.                                                        *)
(***************************************************************************)
RECURSIVE Dedup(_)
Dedup(s) ==
    IF s = <<>> THEN <<>>
    ELSE With(SubSeq(s, 1, Len(s) - 1), LAMBDA head :
         With(Dedup(head), LAMBDA r :
            LET x == s[Len(s)]
            IN  IF \E k \in 1..Len(r) : r[k] = x THEN r ELSE Append(r, x)))

resolve_contacts_via_applescript(phones_to_resolve, limit, directory, answers) ==
    LET asked == Dedup(SubSeq(phones_to_resolve, 1, Min({limit, Len(phones_to_resolve)})))
        hit(p) == p \in answers /\ HasKey(directory, p)
    IN  With(SelectSeq(asked, hit), LAMBDA found :
           [k \in 1..Len(found) |-> <<found[k], directory[found[k]]>>])

\* the identifiers the oracle is called with: phones_to_resolve[:limit]
Consulted(phones_to_resolve, limit) ==
    {phones_to_resolve[k] : k \in 1..Min({limit, Len(phones_to_resolve)})}

\* the identifiers the oracle returned a name for: the keys of 'resolved'
Named(resolved) == {resolved[k][1] : k \in 1..Len(resolved)}

\* resolved[phone], and "phone in resolved"
InResolved(resolved, phone) == \E k \in 1..Len(resolved) : resolved[k][1] = phone
ResolvedName(resolved, phone) ==
    resolved[Min({k \in 1..Len(resolved) : resolved[k][1] = phone})][2]

RECURSIVE LearnResolved(_, _, _)
LearnResolved(phone_to_name, resolved, k) ==
    IF k > Len(resolved) THEN phone_to_name
    ELSE With(LearnPhone(phone_to_name, resolved[k][1], resolved[k][2]),
              LAMBDA learned : LearnResolved(learned, resolved, k + 1))

\* the contacts resolve_unresolved_contacts asks the oracle about
Unresolved(contacts) ==
    LET pick(c) == /\ ~c.isGroupChat
                   /\ \/ StartsWith(c.name, <<"+">>)
                      \/ Contains(c.name, "@")
                      \/ StartsWith(c.name, <<"c", "h", "a", "t">>)
                   /\ Truthy(c.phone)
    IN  With(SelectSeq(contacts, pick), LAMBDA picked :
        With([k \in 1..Len(picked) |-> picked[k].phone], Dedup))

\* "Update contact names in data" of resolve_unresolved_contacts
RenameContact(c, resolved) ==
    LET same == {k \in 1..Len(resolved) : Digits(resolved[k][1]) = Digits(c.phone)}
    IN  IF InResolved(resolved, c.phone)
        THEN [c EXCEPT !.name = ResolvedName(resolved, c.phone)]
        ELSE IF same # {} THEN [c EXCEPT !.name = resolved[Min(same)][2]]
        ELSE c

\* resolve_unresolved_contacts: the data and the mappings it leaves,
\* whether it saved the mappings, the identifiers it called the oracle
\* with and what the oracle returned
resolve_unresolved_contacts(data, mappings, limit, directory, answers) ==
    With(Unresolved(data.contacts), LAMBDA unresolved :
    With(resolve_contacts_via_applescript(unresolved, limit, directory, answers),
         LAMBDA resolved :
       IF unresolved = <<>> \/ resolved = <<>>
       THEN [data |-> data, mappings |-> mappings, saved |-> FALSE,
             asked |-> Consulted(unresolved, limit), resolved |-> resolved]
       ELSE [data |-> [data EXCEPT !.contacts =
                          [k \in 1..Len(data.contacts) |->
                              RenameContact(data.contacts[k], resolved)]],
             mappings |-> [mappings EXCEPT !.phone_to_name =
                              LearnResolved(mappings.phone_to_name, resolved, 1)],
             saved |-> TRUE,
             asked |-> Consulted(unresolved, limit), resolved |-> resolved]))

(***************************************************************************)
(* StatisticsAggregator is calculate_statistics above.  MergeEngine: the   *)
(* merge of cmd_update, on the loaded snapshot 'existing' and the freshly  *)
(* assembled 'new_data'.                                                   *)
(***************************************************************************)
MessageIds(messages) == {messages[k].id : k \in 1..Len(messages)}

\* Variant of NewMessages without the id filter; idempotence must fail
\* with it.
NewMessagesUnfiltered(existing_messages, new_data_messages) == new_data_messages

\* new_messages = [m for m in new_data['messages'] if m['id'] not in existing_ids]
NewMessages(existing_messages, new_data_messages) ==
    LET existing_ids == MessageIds(existing_messages)
    IN  SelectSeq(new_data_messages, LAMBDA m : m.id \notin existing_ids)

\* Variant of MergeMessages in which the fetched record replaces the stored
\* one; the history claim must fail with it.
MergeMessagesNewWins(existing_messages, new_data_messages) ==
    LET new_ids == MessageIds(new_data_messages)
    IN  new_data_messages \o SelectSeq(existing_messages, LAMBDA m : m.id \notin new_ids)

\* existing['messages'] = new_messages + existing['messages']
MergeMessages(existing_messages, new_data_messages) ==
    NewMessages(existing_messages, new_data_messages) \o existing_messages

\* Variant of NewContacts without the id filter; the ids of the merged
\* contacts must not stay distinct with it.
NewContactsUnfiltered(existing_contacts, new_data_contacts) == new_data_contacts

\* the contacts of new_data whose id is not an id of an existing contact
NewContacts(existing_contacts, new_data_contacts) ==
    LET existing_contact_ids == {existing_contacts[k].id : k \in 1..Len(existing_contacts)}
    IN  SelectSeq(new_data_contacts, LAMBDA c : c.id \notin existing_contact_ids)

MergeContacts(existing_contacts, new_data_contacts) ==
    existing_contacts \o NewContacts(existing_contacts, new_data_contacts)

\* Variant of MergedDataset built on the assembled dataset instead of the
\* loaded one, so that the images are the assembler's empty list; the
\* images claim must fail with it.
MergedDatasetFromNew(existing, new_data) ==
    [new_data EXCEPT
        !.messages = MergeMessages(existing.messages, new_data.messages),
        !.contacts = MergeContacts(existing.contacts, new_data.contacts)]

\* 'existing' after its messages and contacts are updated in place: every
\* other field of the snapshot is the loaded one
MergedDataset(existing, new_data) ==
    [existing EXCEPT
        !.messages = MergeMessages(existing.messages, new_data.messages),
        !.contacts = MergeContacts(existing.contacts, new_data.contacts)]

\* Variant of MergedStatistics that keeps the loaded statistics; the
\* statistics claim must fail with it.
MergedStatisticsKept(existing) == existing.statistics

\* existing['statistics'] = calculate_statistics(...)
MergedStatistics(existing) ==
    calculate_statistics(existing.messages, existing.contacts)

\* The branch "if new_messages:" of cmd_update: the dataset that is saved,
\* the mappings, and whether the mappings were saved.
MergeData(existing, new_data, mappings, directory, answers) ==
    With(MergedDataset(existing, new_data), LAMBDA merged :
    With(IF NewContacts(existing.contacts, new_data.contacts) # <<>>
         THEN resolve_unresolved_contacts(merged, mappings, 50, directory, answers)
         ELSE [data |-> merged, mappings |-> mappings, saved |-> FALSE,
               asked |-> {}, resolved |-> <<>>],
         LAMBDA r :
       [data |-> [r.data EXCEPT !.statistics = MergedStatistics(r.data)],
        mappings |-> r.mappings,
        saved |-> r.saved,
        asked |-> r.asked,
        resolved |-> r.resolved]))

\* last_date of cmd_update: the latest 'date' of the snapshot, or NoSince
LastDate(existing) ==
    With({existing.messages[k].date : k \in 1..Len(existing.messages)} \ {NoDate},
         LAMBDA dates : IF dates = {} THEN NoSince ELSE <<Max(dates)>>)

(***************************************************************************)
(* The environment: the identifiers, texts and blobs of the message store, *)
(* the contact directory behind the oracle, the chat table, the machine's  *)
(* UTC offset and the attachments the store holds.                         *)
(***************************************************************************)
Phone1 == <<"+", "1", "5", "5", "5", "1", "2", "3", "4", "5", "6", "7">>
\* the same number as the store holds it for another handle: ten digits
Phone10 == <<"5", "5", "5", "1", "2", "3", "4", "5", "6", "7">>
\* a number of another country with the same last ten digits
Foreign == <<"+", "4", "4", "5", "5", "5", "1", "2", "3", "4", "5", "6", "7">>
Email1 == <<"a", "@", "b">>
Chat1  == <<"c", "h", "a", "t", "1">>
Family == <<"F", "a", "m">>
Al == <<"A", "l">>
Bo == <<"B", "o">>

TextYo == <<121, 111>>
TextOk == <<111, 107, 33>>

\* NSString, the marker 01 94 84 01 2b, length 2, "hi", and a trailer
BlobHi == NSString \o <<1, 148, 132, 1, 43, 2, 104, 105, 134, 132>>
\* a typedstream header without the NSString anchor
BlobNoAnchor == <<4, 11, 115, 116, 114, 101, 97, 109, 116, 121, 112, 101, 100>>

\* query_group_chat_participants: the group threads of the store that
\* have participants
GroupChatTable ==
    Chat1 :> [display_name |-> <<>>,
              participants |-> <<Phone1, Email1>>,
              resolved_display_name |-> None]

\* no group thread has a participant left ("if participants:" fails)
NoGroupChats == <<>>

ChatTables == {GroupChatTable, NoGroupChats}

\* Messages the store can receive (a row without its id).  date is the
\* hour the message was sent.
IndividualRow ==
    [text |-> TextYo, attributed_body |-> NoText, is_from_me |-> TRUE, date |-> 2,
     contact_identifier |-> Phone1, chat_identifier |-> Phone1,
     chat_display_name |-> None]

\* a named group thread; the text is only in the binary body
GroupRow ==
    [text |-> NoText, attributed_body |-> BlobHi, is_from_me |-> FALSE, date |-> 1,
     contact_identifier |-> Email1, chat_identifier |-> Chat1,
     chat_display_name |-> Family]

\* the same group thread, sent by the user: no handle, no name
GroupRowFromMe ==
    [text |-> TextOk, attributed_body |-> NoText, is_from_me |-> TRUE, date |-> 3,
     contact_identifier |-> None, chat_identifier |-> Chat1,
     chat_display_name |-> None]

\* no recoverable content
EmptyRow ==
    [text |-> <<>>, attributed_body |-> BlobNoAnchor, is_from_me |-> FALSE, date |-> 2,
     contact_identifier |-> Phone1, chat_identifier |-> Phone1,
     chat_display_name |-> None]

\* neither handle nor chat
OrphanRow ==
    [text |-> TextYo, attributed_body |-> BlobHi, is_from_me |-> FALSE, date |-> 1,
     contact_identifier |-> None, chat_identifier |-> None,
     chat_display_name |-> None]

\* handle absent, the chat of a one-to-one thread present
ThreadRow ==
    [text |-> TextOk, attributed_body |-> NoText, is_from_me |-> TRUE, date |-> 3,
     contact_identifier |-> None, chat_identifier |-> Phone1,
     chat_display_name |-> None]

\* a one-to-one thread that has a display name of its own
NamedIndividualRow ==
    [text |-> TextOk, attributed_body |-> NoText, is_from_me |-> FALSE, date |-> 3,
     contact_identifier |-> Phone1, chat_identifier |-> Phone1,
     chat_display_name |-> Family]

\* a one-to-one thread with a handle of ten digits
Phone10Row ==
    [text |-> TextOk, attributed_body |-> NoText, is_from_me |-> FALSE, date |-> 1,
     contact_identifier |-> Phone10, chat_identifier |-> Phone10,
     chat_display_name |-> None]

\* a one-to-one thread with a number of another country
ForeignRow ==
    [text |-> TextOk, attributed_body |-> NoText, is_from_me |-> FALSE, date |-> 3,
     contact_identifier |-> Foreign, chat_identifier |-> Foreign,
     chat_display_name |-> None]

\* a one-to-one thread with an e-mail handle
EmailRow ==
    [text |-> TextOk, attributed_body |-> NoText, is_from_me |-> FALSE, date |-> 1,
     contact_identifier |-> Email1, chat_identifier |-> Email1,
     chat_display_name |-> None]

\* rows with every combination of a handle (missing, empty, a phone
\* number, an e-mail address, a lone '+'), a thread key
\* (missing, empty, a group's, a one-to-one thread's) and a thread display
\* name (missing, empty, present)
ContactRows ==
    { [id |-> 1, text |-> TextOk, attributed_body |-> NoText, is_from_me |-> FALSE,
       date |-> 1, contact_identifier |-> handle, chat_identifier |-> chat,
       chat_display_name |-> display] :
         handle \in {None, <<>>, Phone1, Email1, <<"+">>},
         chat \in {None, <<>>, Chat1, Phone1},
         display \in {None, <<>>, Family} }

\* contents of phone_to_name: empty, a name under the handle, under its
\* digits, and under an e-mail address
ContactStores ==
    { <<>>, Phone1 :> Al, Digits(Phone1) :> Al, Email1 :> Bo }

\* a message whose date the store does not have
UndatedRow ==
    [text |-> TextOk, attributed_body |-> NoText, is_from_me |-> FALSE, date |-> NoDate,
     contact_identifier |-> Phone1, chat_identifier |-> Phone1,
     chat_display_name |-> None]

\* A message that chat_message_join puts in two chats: the query's joins
\* return it once per chat, with the same m.ROWID.
SharedMessage ==
    <<[text |-> TextOk, attributed_body |-> NoText, is_from_me |-> FALSE, date |-> 3,
       contact_identifier |-> Phone1, chat_identifier |-> Phone1,
       chat_display_name |-> None],
      [text |-> TextOk, attributed_body |-> NoText, is_from_me |-> FALSE, date |-> 3,
       contact_identifier |-> Phone1, chat_identifier |-> Chat1,
       chat_display_name |-> Family]>>

(***************************************************************************)
(* Serialized bodies for the decoder.  A body with a format marker is made *)
(* of the bytes before the anchor, the anchor NSString, the bytes between  *)
(* the anchor and the marker, the marker, the length descriptor of the     *)
(* text, the UTF-8 bytes of the text and a trailer.  Texts are sequences   *)
(* of code points.                                                         *)
(***************************************************************************)
\* the UTF-8 bytes of a text with code points below 65536
RECURSIVE Utf8Encode(_)
Utf8Encode(text) ==
    IF text = <<>> THEN <<>>
    ELSE LET c == text[1]
             head == IF c < 128 THEN <<c>>
                     ELSE IF c < 2048 THEN <<192 + (c \div 64), 128 + (c % 64)>>
                     ELSE <<224 + (c \div 4096), 128 + ((c \div 64) % 64), 128 + (c % 64)>>
         IN  head \o Utf8Encode(Tail(text))

\* the length descriptor of a text of n bytes: the byte n; or 0x81, n and
\* a separator; or 0x82, the two bytes of n, low byte first, and a
\* separator
LengthDescriptor(shape, n, sep) ==
    IF shape = "short" THEN <<n>>
    ELSE IF shape = "one" THEN <<129, n, sep>>
    ELSE <<130, n % 256, n \div 256, sep>>

Blob(c) ==
    With(Utf8Encode(c.text), LAMBDA bytes :
       c.prefix \o NSString \o c.gap \o c.marker
          \o LengthDescriptor(c.shape, Len(bytes), c.sep) \o bytes \o c.trailer)

Shapes == {"short", "one", "two"}

TextHi == <<104, 105>>
\* "é!", "a\nb" and "€5"
TextAccent == <<233, 33>>
TextLines == <<97, 10, 98>>
TextEuro == <<8364, 53>>
\* "hi\x00wo", " hi ", "\x00hi", "hi\t" and "\xa0hi\x07"
TextHiNulWo == <<104, 105, 0, 119, 111>>
TextPadded == <<32, 104, 105, 32>>

PlainTexts == {TextHi, TextAccent, TextLines, TextEuro}
ControlTexts ==
    {TextHiNulWo, TextPadded, <<0, 104, 105>>, <<104, 105, 9>>, <<160, 104, 105, 7>>}

\* bodies with one format marker after the anchor
MarkerBlobs ==
    { [prefix |-> <<>>, gap |-> <<>>, marker |-> patterns[m], shape |-> shape,
       sep |-> 0, text |-> TextHi, trailer |-> <<134, 132>>] :
         m \in 1..Len(patterns), shape \in Shapes }
    \cup
    { [prefix |-> <<4, 11>>, gap |-> <<0, 0>>, marker |-> patterns[3], shape |-> shape,
       sep |-> 134, text |-> text, trailer |-> <<>>] :
         shape \in Shapes, text \in PlainTexts }
    \cup
    { [prefix |-> <<>>, gap |-> <<>>, marker |-> patterns[3], shape |-> shape,
       sep |-> 0, text |-> text, trailer |-> <<134, 132>>] :
         shape \in {"short", "two"}, text \in ControlTexts }

\* bodies without a format marker, which only the scan can read: the
\* anchor, a length byte, the text and ten more bytes
ScanBlobs ==
    { [prefix |-> <<>>, gap |-> <<>>, marker |-> <<>>, shape |-> "short",
       sep |-> 0, text |-> text, trailer |-> [k \in 1..10 |-> 134]] :
         text \in {TextHi, TextHiNulWo, TextPadded} }

\* bodies the decoder cannot read: empty, without the anchor, cut inside
\* the length field, cut at the marker, cut inside the text, not UTF-8,
\* with a count of length bytes that is not supported, and with a length
\* of 258 bytes, beyond the end
BrokenBlobs ==
    { <<>>,
      BlobNoAnchor,
      <<1, 148, 132, 1, 43, 2, 104, 105>>,
      NSString \o patterns[3] \o <<130, 2>>,
      NSString \o patterns[3],
      NSString \o patterns[3] \o <<5, 104, 105>>,
      NSString \o patterns[3] \o <<2, 255, 104, 134, 132>>,
      NSString \o patterns[3] \o <<2, 195, 40, 134, 132>>,
      NSString \o patterns[3] \o <<131, 2, 0, 0, 0, 104, 105>>,
      NSString \o patterns[3] \o <<130, 2, 1, 0, 104, 105>>,
      NSString \o <<3, 104, 255, 105>> \o [k \in 1..10 |-> 134] }

\* bodies without a marker, read by the fallback scan: the text "\x01ab"
\* announced by 3 and then "hi" announced by 2; the text "a\x00b" announced
\* by 3; and "hi" announced by 2 at the 102nd offset past the anchor
BlobSkipEmpty == NSString \o <<3, 1, 97, 98, 2, 104, 105>> \o [k \in 1..10 |-> 134]
BlobSkipShort == NSString \o <<3, 97, 0, 98>> \o [k \in 1..10 |-> 134]
BlobFar == NSString \o [k \in 1..101 |-> 1] \o <<2, 104, 105>> \o [k \in 1..10 |-> 134]

DecoderBlobs ==
    {Blob(c) : c \in MarkerBlobs \cup ScanBlobs} \cup BrokenBlobs
    \cup {BlobSkipEmpty, BlobSkipShort, BlobFar}
    \cup {NoText}

\* a message that has only the serialized body
BlobRow(blob) ==
    [text |-> NoText, attributed_body |-> blob, is_from_me |-> FALSE, date |-> 1,
     contact_identifier |-> Phone1, chat_identifier |-> Phone1,
     chat_display_name |-> None]

\* extract_attachments found nothing (NoAttachments), or the list of images
\* copy_and_convert_attachments made of what it found
NoAttachments == None

\* An environment: the machine's UTC offset in hours, the contact
\* directory, what the attachment pipeline yields, the messages that can
\* arrive, each the sequence of its joined rows (one per chat), and the
\* group threads query_group_chat_participants can find.
MergeEnvs ==
    { [tz |-> z, directory |-> <<>>, attachments |-> <<"img1">>,
       arrivals |-> {<<IndividualRow>>, <<GroupRow>>},
       chat_tables |-> {GroupChatTable}] : z \in {-2, 0} }
    \cup
    { [tz |-> 0, directory |-> <<>>, attachments |-> <<"img1">>,
       arrivals |-> {<<IndividualRow>>, SharedMessage},
       chat_tables |-> ChatTables] }

\* Environments for the assembler: every shape of row.
AssemblyEnvs ==
    { [tz |-> 0, directory |-> <<>>, attachments |-> NoAttachments,
       arrivals |-> {<<GroupRow>>, <<GroupRowFromMe>>, <<EmptyRow>>},
       chat_tables |-> {GroupChatTable}],
      [tz |-> 0, directory |-> <<>>, attachments |-> NoAttachments,
       arrivals |-> {<<IndividualRow>>, <<OrphanRow>>, <<ThreadRow>>},
       chat_tables |-> ChatTables] }

\* Environments for the resolver and the mapping store: the contact
\* directory knows some of the identifiers.
ResolveEnvs ==
    { \* a thread seen first through a message without handle
      [tz |-> 0, directory |-> (Phone1 :> Al), attachments |-> NoAttachments,
       arrivals |-> {<<IndividualRow>>, <<ThreadRow>>, <<GroupRowFromMe>>},
       chat_tables |-> ChatTables],
      \* every source of a display name
      [tz |-> 0, directory |-> (Phone1 :> Al), attachments |-> NoAttachments,
       arrivals |-> {<<IndividualRow>>, <<NamedIndividualRow>>, <<EmailRow>>},
       chat_tables |-> {GroupChatTable}],
      \* one number under three identifiers, two of them in the directory
      [tz |-> 0, directory |-> (Phone1 :> Bo) @@ (Phone10 :> Al),
       attachments |-> NoAttachments,
       arrivals |-> {<<IndividualRow>>, <<Phone10Row>>, <<ForeignRow>>},
       chat_tables |-> {GroupChatTable}] }

(***************************************************************************)
(* State.                                                                  *)
(***************************************************************************)
VARIABLES
    env,          \* the environment of the runs (fixed)
    db,           \* the message store: the rows, in ROWID order
    chats,        \* the message store: what query_group_chat_participants finds
    dataFile,     \* imessage_data.json: NoData or a dataset
    mappingsFile, \* contact_mappings.json
    named         \* history: the identifiers the oracle has returned a name
                  \* for in a run that saved the mappings

vars == <<env, db, chats, dataFile, mappingsFile, named>>

NoData == [missing |-> TRUE]

\* the file is there and is not JSON; the file is there and cannot be
\* opened
Garbled == [garbled |-> TRUE]
Unreadable == [unreadable |-> TRUE]

\* load_data: the dataset of the file, or None (NoData) when the file is
\* missing or when open() or json.load raises
load_data(file) == IF file \in {NoData, Garbled, Unreadable} THEN NoData ELSE file

\* save_data: the file afterwards.  It first copies the file that is there
\* to a backup; shutil.copy2 raises when the file cannot be opened, and
\* nothing is written.
save_data(file, data) == IF file = Unreadable THEN file ELSE data

\* participants of group threads, and the store that names them: one by
\* the handle itself, one by its canonical digits, one by '+' and its
\* canonical digits, one by its last ten digits; Stranger has no entry
Phone11 == <<"1", "5", "5", "5", "0", "0", "0", "0", "0", "0", "2">>
PhoneD == <<"+", "1", "5", "5", "5", "0", "0", "0", "0", "0", "0", "3">>
Email2 == <<"e", "@", "f">>
Stranger == <<"x", "@", "y">>

GroupStore ==
    (Email1 :> Bo) @@ (Digits(Phone1) :> Al) @@ ((<<"+">> \o Phone11) :> <<"C", "y">>)
    @@ (Last10(Digits(PhoneD)) :> <<"D", "i">>) @@ (Email2 :> <<"E", "d">>)

\* threads with six participants of whom five have a name, with four named
\* participants, with none, and with a display name of its own
ManyChatTable ==
    (Chat1 :> [display_name |-> <<>>,
               participants |-> <<Email1, Phone10, Stranger, Phone11, PhoneD, Email2>>,
               resolved_display_name |-> None])
    @@ (<<"c", "h", "a", "t", "2">> :>
          [display_name |-> <<>>,
           participants |-> <<Email1, Phone10, Phone11, PhoneD>>,
           resolved_display_name |-> None])
    @@ (<<"c", "h", "a", "t", "3">> :>
          [display_name |-> <<>>,
           participants |-> <<Stranger>>,
           resolved_display_name |-> None])
    @@ (<<"c", "h", "a", "t", "4">> :>
          [display_name |-> Family,
           participants |-> <<Email1, Stranger>>,
           resolved_display_name |-> None])

StatisticsEnvs ==
    { [tz |-> 0, directory |-> <<>>, attachments |-> NoAttachments,
       arrivals |-> {<<IndividualRow>>, <<GroupRow>>, <<UndatedRow>>},
       chat_tables |-> ChatTables],
      [tz |-> -2, directory |-> <<>>, attachments |-> NoAttachments,
       arrivals |-> {<<IndividualRow>>, <<UndatedRow>>},
       chat_tables |-> {GroupChatTable}] }

\* one message store per serialized body, and one where the other
\* messages and the group threads change as well
DecoderEnvs ==
    { [tz |-> 0, directory |-> <<>>, attachments |-> NoAttachments,
       arrivals |-> {<<BlobRow(blob)>>},
       chat_tables |-> {GroupChatTable}] : blob \in DecoderBlobs }
    \cup
    { [tz |-> 0, directory |-> (Phone1 :> Al), attachments |-> NoAttachments,
       arrivals |-> {<<BlobRow(BlobHi)>>, <<IndividualRow>>},
       chat_tables |-> ChatTables] }

\* load_mappings() when the file is missing or unreadable
DefaultMappings == [version |-> 1, phone_to_name |-> <<>>, group_chats |-> <<>>]

InitFiles ==
    /\ db = <<>>
    /\ chats = GroupChatTable
    /\ dataFile = NoData
    /\ mappingsFile = DefaultMappings
    /\ named = {}

Init ==
    /\ env \in MergeEnvs
    /\ InitFiles

InitAssembly ==
    /\ env \in AssemblyEnvs
    /\ InitFiles

InitResolve ==
    /\ env \in ResolveEnvs
    /\ InitFiles

InitDecoder ==
    /\ env \in DecoderEnvs
    /\ InitFiles

InitStatistics ==
    /\ env \in StatisticsEnvs
    /\ InitFiles

\* the mappings file as contacts_from_vcf.py or update_contact_names.py
\* left it: names, and no group thread yet
InitGroups ==
    /\ env \in
          { [tz |-> 0, directory |-> <<>>, attachments |-> NoAttachments,
             arrivals |-> {<<IndividualRow>>, <<GroupRow>>},
             chat_tables |-> {ManyChatTable, GroupChatTable}],
            \* a handle that writes in a group thread and in a one-to-one thread,
            \* and that the directory knows
            [tz |-> 0, directory |-> (Phone1 :> Al), attachments |-> NoAttachments,
             arrivals |-> {<<IndividualRow>>, SharedMessage},
             chat_tables |-> {GroupChatTable, NoGroupChats}] }
    /\ db = <<>>
    /\ chats \in env.chat_tables
    /\ dataFile = NoData
    /\ mappingsFile \in {[DefaultMappings EXCEPT !.phone_to_name = store] :
                            store \in {<<>>, GroupStore}}
    /\ named = {}

InitSnapshot ==
    /\ env \in
          { [tz |-> 0, directory |-> <<>>, attachments |-> <<"img1">>,
             arrivals |-> {<<IndividualRow>>, <<GroupRow>>},
             chat_tables |-> ChatTables],
            [tz |-> 0, directory |-> (Phone1 :> Al), attachments |-> NoAttachments,
             arrivals |-> {<<IndividualRow>>},
             chat_tables |-> {GroupChatTable}] }
    /\ InitFiles

(***************************************************************************)
(* The store changes between runs: a message arrives (its date is the time *)
(* it was sent, which may precede messages already stored), or the text of *)
(* a message is edited.                                                    *)
(***************************************************************************)
\* the ROWID the store gives the next message
NextRowId(rows) ==
    IF rows = <<>> THEN 1 ELSE Max({rows[k].id : k \in 1..Len(rows)}) + 1

AddRow ==
    /\ \E arrival \in env.arrivals :
          /\ Len(db) + Len(arrival) <= MaxRows
          /\ db' = db \o [k \in 1..Len(arrival) |->
                             [id |-> NextRowId(db), edited |-> FALSE] @@ arrival[k]]
    /\ UNCHANGED <<env, chats, dataFile, mappingsFile, named>>

EditRow ==
    /\ Cardinality({db[j].id : j \in {k \in 1..Len(db) : db[k].edited}}) < MaxEdits
    /\ \E i \in 1..Len(db) :
          /\ db[i].text = TextYo
          /\ db' = [k \in 1..Len(db) |->
                       IF db[k].id = db[i].id
                       THEN [db[k] EXCEPT !.text = TextOk, !.edited = TRUE]
                       ELSE db[k]]
    /\ UNCHANGED <<env, chats, dataFile, mappingsFile, named>>

\* participants join or leave the group threads
ChatChange ==
    /\ \E table \in env.chat_tables :
          /\ table # chats
          /\ chats' = table
    /\ UNCHANGED <<env, db, dataFile, mappingsFile, named>>

(***************************************************************************)
(* Commands.                                                               *)
(***************************************************************************)
\* data['images'] = images; data['statistics']['totalImages'] = len(images)
WithImages(data, images) ==
    [data EXCEPT !.images = images,
                 !.statistics = [totalImages |-> Len(images)] @@ data.statistics]

\* "if attachments:" of cmd_full_export and cmd_attachments
AttachImages(data, attachments) ==
    IF attachments # NoAttachments THEN WithImages(data, attachments) ELSE data

\* cmd_full_export, given what the two queries, the oracle and the
\* attachment pipeline return: the dataset saved, the mappings saved, the
\* identifiers the oracle was called with and what it returned
FullExport(mappings, chat_table, rows, directory, answers, attachments) ==
    With(resolve_participant_names(chat_table, mappings.phone_to_name),
         LAMBDA group_chats :
    With([mappings EXCEPT !.group_chats = group_chats], LAMBDA mappings2 :
    With(extract_messages(rows, mappings2), LAMBDA data :
    With([mappings2 EXCEPT !.phone_to_name =
             SaveNewMappings(mappings2.phone_to_name, data.contacts, 1)],
         LAMBDA mappings4 :
    With(resolve_unresolved_contacts(data, mappings4, 100, directory, answers),
         LAMBDA r :
       [data |-> AttachImages(r.data, attachments),
        mappings |-> r.mappings,
        asked |-> r.asked,
        resolved |-> r.resolved])))))

CmdFullExport ==
    /\ \E rows \in QueryResults(db, NoSince, MESSAGE_LIMIT, env.tz),
          answers \in SUBSET (DOMAIN env.directory) :
          \E r \in {FullExport(mappingsFile, chats, rows, env.directory, answers,
                              env.attachments)} :
              /\ dataFile' = save_data(dataFile, r.data)
              /\ mappingsFile' = r.mappings
              /\ named' = named \cup Named(r.resolved)
    /\ UNCHANGED <<env, db, chats>>

\* How cmd_update ends when there is a snapshot: "update_empty" (the query
\* returned no message), "update_same" (every message was already in the
\* snapshot) or "update_merged".
UpdateOutcome(existing, new_data) ==
    IF new_data.messages = <<>> THEN "update_empty"
    ELSE IF NewMessages(existing.messages, new_data.messages) = <<>> THEN "update_same"
    ELSE "update_merged"

\* cmd_update without a snapshot: "Running full export instead"
CmdUpdateFull ==
    /\ load_data(dataFile) = NoData
    /\ \E rows \in QueryResults(db, NoSince, MESSAGE_LIMIT, env.tz),
          answers \in SUBSET (DOMAIN env.directory) :
          \E r \in {FullExport(mappingsFile, chats, rows, env.directory, answers,
                              env.attachments)} :
              /\ dataFile' = save_data(dataFile, r.data)
              /\ mappingsFile' = r.mappings
              /\ named' = named \cup Named(r.resolved)
    /\ UNCHANGED <<env, db, chats>>

\* cmd_update on the snapshot 'existing', given what the query and the
\* oracle return: how it ends, the dataset it assembled, and the dataset and
\* mappings on disk afterwards (nothing is saved unless it merged)
Update(existing, mappings, rows, directory, answers) ==
    With(extract_messages(rows, mappings), LAMBDA new_data :
    With(UpdateOutcome(existing, new_data), LAMBDA outcome :
       IF outcome = "update_merged"
       THEN With(MergeData(existing, new_data, mappings, directory, answers),
                 LAMBDA r : [outcome |-> outcome, new_data |-> new_data,
                             data |-> r.data, mappings |-> r.mappings,
                             asked |-> r.asked, resolved |-> r.resolved])
       ELSE [outcome |-> outcome, new_data |-> new_data,
             data |-> existing, mappings |-> mappings,
             asked |-> {}, resolved |-> <<>>]))

\* every way cmd_update can run in the current state
Updates ==
    IF load_data(dataFile) = NoData THEN {}
    ELSE {Update(dataFile, mappingsFile, rows, env.directory, answers) :
            rows \in QueryResults(db, LastDate(dataFile), UPDATE_LIMIT, env.tz),
            answers \in SUBSET (DOMAIN env.directory)}

\* the row lists extract_messages can be given in the current state: by
\* cmd_full_export, and by cmd_update when there is a snapshot
AssemblyRows ==
    QueryResults(db, NoSince, MESSAGE_LIMIT, env.tz)
    \cup (IF load_data(dataFile) = NoData THEN {}
          ELSE QueryResults(db, LastDate(dataFile), UPDATE_LIMIT, env.tz))

\* every call of extract_messages the commands can make in the current
\* state: the rows it reads and the mappings it is given (cmd_full_export
\* passes the mappings with the group threads it has just queried)
Assemblies ==
    { [rows |-> rows,
       mappings |-> [mappingsFile EXCEPT !.group_chats =
                        resolve_participant_names(chats, mappingsFile.phone_to_name)]] :
         rows \in QueryResults(db, NoSince, MESSAGE_LIMIT, env.tz) }
    \cup (IF load_data(dataFile) = NoData THEN {}
          ELSE { [rows |-> rows, mappings |-> mappingsFile] :
                   rows \in QueryResults(db, LastDate(dataFile), UPDATE_LIMIT, env.tz) })

\* cmd_update with a snapshot
CmdUpdate ==
    /\ load_data(dataFile) # NoData
    /\ \E u \in Updates :
          /\ dataFile' = u.data
          /\ mappingsFile' = u.mappings
          /\ named' = named \cup Named(u.resolved)
    /\ UNCHANGED <<env, db, chats>>

\* the identifiers cmd_contacts asks the oracle about
ContactsUnresolved(contacts) ==
    LET pick(c) == /\ ~c.isGroupChat
                   /\ StartsWith(c.name, <<"+">>) \/ Contains(c.name, "@")
        picked == SelectSeq(contacts, pick)
    IN  [k \in 1..Len(picked) |-> picked[k].phone]

\* cmd_contacts on a snapshot: the dataset and mappings it leaves on disk,
\* the identifiers the oracle was called with and what it returned
Contacts(data, mappings, directory, answers) ==
    With(ContactsUnresolved(data.contacts), LAMBDA unresolved :
    With(resolve_contacts_via_applescript(unresolved, 100, directory, answers),
         LAMBDA resolved :
       LET rename(c) == IF InResolved(resolved, c.phone)
                        THEN [c EXCEPT !.name = ResolvedName(resolved, c.phone)]
                        ELSE c
       IN  IF unresolved = <<>> \/ resolved = <<>>
           THEN [data |-> data, mappings |-> mappings,
                 asked |-> Consulted(unresolved, 100), resolved |-> resolved]
           ELSE [data |-> [data EXCEPT !.contacts =
                              [k \in 1..Len(data.contacts) |-> rename(data.contacts[k])]],
                 mappings |-> [mappings EXCEPT !.phone_to_name =
                                  LearnResolved(mappings.phone_to_name, resolved, 1)],
                 asked |-> Consulted(unresolved, 100), resolved |-> resolved]))

CmdContacts ==
    /\ load_data(dataFile) # NoData
    /\ \E answers \in SUBSET (DOMAIN env.directory) :
          \E r \in {Contacts(dataFile, mappingsFile, env.directory, answers)} :
              /\ dataFile' = r.data
              /\ mappingsFile' = r.mappings
              /\ named' = named \cup Named(r.resolved)
    /\ UNCHANGED <<env, db, chats>>

\* every run of cmd_full_export, cmd_update and cmd_contacts that can
\* happen in the current state: the identifiers it calls the oracle with,
\* what the oracle returns and the mappings on disk afterwards
Runs ==
    LET run(r) == [asked |-> r.asked, resolved |-> r.resolved, mappings |-> r.mappings]
    IN  { run(FullExport(mappingsFile, chats, rows, env.directory, answers,
                         env.attachments)) :
            rows \in QueryResults(db, NoSince, MESSAGE_LIMIT, env.tz),
            answers \in SUBSET (DOMAIN env.directory) }
        \cup {run(u) : u \in Updates}
        \cup (IF load_data(dataFile) = NoData THEN {}
              ELSE { run(Contacts(dataFile, mappingsFile, env.directory, answers)) :
                       answers \in SUBSET (DOMAIN env.directory) })

CmdAttachments ==
    /\ load_data(dataFile) # NoData
    /\ dataFile' = AttachImages(dataFile, env.attachments)
    /\ UNCHANGED <<env, db, chats, mappingsFile, named>>

(***************************************************************************)
(* save_contact_mappings.py: the script that saves the names of the        *)
(* dataset and the group threads of the store into the mappings.           *)
(***************************************************************************)
\* clean_phone_number of save_contact_mappings.py: the canonical digits
canonical_digits(phone) ==
    IF ~Truthy(phone) THEN <<>>
    ELSE With(Digits(Str(phone)), LAMBDA cleaned :
            IF Len(cleaned) = 10 THEN <<"1">> \o cleaned ELSE cleaned)

\* clean_phone_number of update_contact_names.py, which is given strings
update_clean_phone_number(phone) ==
    With(Digits(phone), LAMBDA cleaned :
       IF Len(cleaned) = 10 THEN <<"1">> \o cleaned ELSE cleaned)

\* "phone_to_name[phone] = name" and the three forms made of the canonical
\* digits
LearnContact(phone_to_name, phone, name) ==
    With(canonical_digits(phone), LAMBDA cleaned :
       LET d1 == Put(phone_to_name, phone, name)
           d2 == Put(Put(d1, <<"+">> \o cleaned, name), cleaned, name)
       IN  IF cleaned = <<>> THEN d1
           ELSE IF Len(cleaned) >= 10 THEN Put(d2, Last10(cleaned), name)
           ELSE d2)

\* extract_contacts_from_json followed by phone_to_name.update(...), over
\* contacts[k..]
RECURSIVE extract_contacts_from_json(_, _, _)
extract_contacts_from_json(phone_to_name, contacts, k) ==
    IF k > Len(contacts) THEN phone_to_name
    ELSE LET c == contacts[k]
             skip == \/ ~Truthy(c.name)
                     \/ StartsWith(c.name, <<"+">>)
                     \/ StartsWith(c.name, <<"c", "h", "a", "t">>)
                     \/ Contains(c.name, "@")
                     \/ c.isGroupChat
                     \/ StartsWith(c.phone, <<"c", "h", "a", "t">>)
                     \/ ~Truthy(c.phone)
         IN  With(IF skip THEN phone_to_name
                  ELSE LearnContact(phone_to_name, c.phone, c.name),
                  LAMBDA learned : extract_contacts_from_json(learned, contacts, k + 1))

\* main of save_contact_mappings.py: the mappings it saves
save_contact_mappings(mappings, data, chat_table) ==
    With(IF data = NoData THEN mappings.phone_to_name
         ELSE extract_contacts_from_json(mappings.phone_to_name, data.contacts, 1),
         LAMBDA phone_to_name :
    With(resolve_participant_names(chat_table, phone_to_name), LAMBDA group_chats :
       [mappings EXCEPT !.phone_to_name = phone_to_name,
                        !.group_chats = group_chats @@ mappings.group_chats]))

SaveContactMappings ==
    /\ dataFile \notin {Garbled, Unreadable}
    /\ mappingsFile' = save_contact_mappings(mappingsFile, dataFile, chats)
    /\ UNCHANGED <<env, db, chats, dataFile, named>>

Next ==
    \/ AddRow
    \/ EditRow
    \/ ChatChange
    \/ CmdFullExport
    \/ CmdUpdateFull
    \/ CmdUpdate
    \/ CmdContacts
    \/ CmdAttachments
    \/ SaveContactMappings

\* the snapshot is damaged between runs: overwritten with something that
\* is not JSON, or made impossible to open
DamageData ==
    /\ dataFile # NoData
    /\ \E file \in {Garbled, Unreadable} : file # dataFile /\ dataFile' = file
    /\ UNCHANGED <<env, db, chats, mappingsFile, named>>

NextSnapshot == Next \/ DamageData

Spec == Init /\ [][Next]_vars

SpecAssembly == InitAssembly /\ [][Next]_vars

SpecResolve == InitResolve /\ [][Next]_vars

SpecDecoder == InitDecoder /\ [][Next]_vars

SpecStatistics == InitStatistics /\ [][Next]_vars

SpecSnapshot == InitSnapshot /\ [][NextSnapshot]_vars

SpecGroups == InitGroups /\ [][Next]_vars

(***************************************************************************)
(* Properties of the merge of cmd_update, under Spec.  Updates is the set  *)
(* of outcomes of cmd_update in a state: u.new_data is the dataset it      *)
(* assembled, u.data the dataset on disk afterwards.                       *)
(***************************************************************************)

\* C1: merge idempotence.  Whatever cmd_update merged, merging the same
\* assembled dataset again into the result admits nothing and leaves the
\* message list as it is; merging a dataset into itself adds no message.
C1_MergeIdempotent ==
    \A u \in Updates :
        /\ UpdateOutcome(u.data, u.new_data) # "update_merged"
        /\ MergeMessages(u.data.messages, u.new_data.messages) = u.data.messages
        /\ MergeMessages(u.data.messages, u.data.messages) = u.data.messages
        /\ MergeMessages(u.new_data.messages, u.new_data.messages) = u.new_data.messages

\* an update that admits messages although part of what it fetched is
\* already in the snapshot
C1_OverlappingMerge ==
    \E u \in Updates :
        /\ u.outcome = "update_merged"
        /\ \E k \in 1..Len(u.new_data.messages) :
              u.new_data.messages[k].id \in MessageIds(dataFile.messages)

\* C2: the merge never loses or alters history.  The messages of the prior
\* snapshot are the tail of the merged list, field for field and in the
\* same order, and no admitted message carries an id of the prior snapshot,
\* so that on an id conflict the prior record is the one kept.
C2_MergeKeepsHistory ==
    \A u \in Updates :
        LET prior  == dataFile.messages
            merged == u.data.messages
            added  == Len(merged) - Len(prior)
        IN  /\ added >= 0
            /\ SubSeq(merged, added + 1, Len(merged)) = prior
            /\ \A k \in 1..added : merged[k].id \notin MessageIds(prior)

\* an update that admits messages and fetches a message of the snapshot
\* whose content has changed in the store since
C2_ConflictingMerge ==
    \E u \in Updates :
        /\ u.outcome = "update_merged"
        /\ \E k \in 1..Len(u.new_data.messages), j \in 1..Len(dataFile.messages) :
              /\ u.new_data.messages[k].id = dataFile.messages[j].id
              /\ u.new_data.messages[k].content # dataFile.messages[j].content

\* C3: no two messages of the merged dataset share an id.  Stated for one
\* merge: if the ids of the prior snapshot are pairwise distinct, so are
\* the ids of the dataset the update leaves.
C3_NoDuplicateIds ==
    \A u \in Updates :
        LET distinct(ms) == \A i, j \in 1..Len(ms) : i # j => ms[i].id # ms[j].id
        IN  distinct(dataFile.messages) => distinct(u.data.messages)

\* C4: in the persisted dataset (the result of an assembly or of a merge)
\* each contact's messageCount is the number of messages whose contactId
\* is the contact's id.
C4_MessageCountMatches ==
    dataFile # NoData =>
        \A k \in 1..Len(dataFile.contacts) :
            dataFile.contacts[k].messageCount =
                Cardinality({j \in 1..Len(dataFile.messages) :
                                dataFile.messages[j].contactId = dataFile.contacts[k].id})

\* C5: the merged list is most-recent-first.  If the prior list and the
\* assembled list are each in non-increasing date order, so is the list
\* the update leaves.
C5_MergedMostRecentFirst ==
    \A u \in Updates :
        LET ordered(ms) == \A i \in 1..(Len(ms) - 1) : ms[i].date >= ms[i + 1].date
        IN  ordered(dataFile.messages) /\ ordered(u.new_data.messages)
               => ordered(u.data.messages)

\* C6: the contacts of the persisted dataset (the result of an assembly or
\* of a merge) are in descending order of messageCount.
C6_ContactsSortedByCount ==
    dataFile # NoData =>
        \A k \in 1..(Len(dataFile.contacts) - 1) :
            dataFile.contacts[k].messageCount >= dataFile.contacts[k + 1].messageCount

\* C7, as amended: after an update that admits at least one message the
\* statistics are exactly calculate_statistics of the merged messages and
\* contacts; an update that admits none leaves the persisted dataset, its
\* statistics included, as it was.
C7_StatisticsRecomputedWhenMerged ==
    \A u \in Updates :
        IF u.outcome = "update_merged"
        THEN u.data.statistics = calculate_statistics(u.data.messages, u.data.contacts)
        ELSE u.data = dataFile

\* an update that admits messages into a snapshot whose statistics hold a
\* value calculate_statistics does not produce
C7_MergeDropsStoredStatistic ==
    \E u \in Updates :
        /\ u.outcome = "update_merged"
        /\ "totalImages" \in DOMAIN dataFile.statistics
        /\ "totalImages" \notin DOMAIN u.data.statistics

\* C7, as stated: after every update, one that admits no message included,
\* the statistics are exactly calculate_statistics of the messages and
\* contacts.
C7_StatisticsRecomputedAlways ==
    \A u \in Updates :
        u.data.statistics = calculate_statistics(u.data.messages, u.data.contacts)

\* C8: the update leaves the images of the snapshot unchanged, whether or
\* not it admitted messages.
C8_ImagesUnchanged ==
    \A u \in Updates : u.data.images = dataFile.images

\* an update that admits messages into a snapshot that has images
C8_MergeWithImages ==
    \E u \in Updates :
        /\ u.outcome = "update_merged"
        /\ dataFile.images # <<>>
        /\ u.data.images # <<>>

(***************************************************************************)
(* Properties of the assembler, under SpecAssembly.                        *)
(***************************************************************************)

\* C9: assembly emits a message for a row if and only if the row has
\* content (its text, or else what the decoder makes of its binary body):
\* the messages are, in order, one per row with content, each with that
\* content, and none is empty.
C9_MessageIffContent ==
    \A rows \in AssemblyRows :
        LET present(t) == t # NoText /\ t # <<>>
            content(row) == IF present(row.text) THEN row.text
                            ELSE IF present(row.attributed_body)
                                 THEN decode_attributed_body(row.attributed_body)
                                 ELSE NoText
            has_content(row) == present(content(row))
            with_content == SelectSeq(rows, has_content)
            messages == extract_messages(rows, mappingsFile).messages
        IN  /\ Len(messages) = Len(with_content)
            /\ \A k \in 1..Len(messages) :
                  /\ messages[k].id = with_content[k].id
                  /\ messages[k].content = content(with_content[k])
                  /\ present(messages[k].content)

\* the snapshot is the assembly of a store that holds a row without content,
\* which has no message, and a row whose content is only in its binary
\* body, which has one
C9_DroppedAndDecoded ==
    /\ dataFile # NoData
    /\ \E rows \in AssemblyRows :
          dataFile.messages = extract_messages(rows, mappingsFile).messages
    /\ \E i \in 1..Len(db) :
          /\ db[i].text = <<>>
          /\ decode_attributed_body(db[i].attributed_body) = NoText
          /\ db[i].id \notin MessageIds(dataFile.messages)
    /\ \E i \in 1..Len(db), k \in 1..Len(dataFile.messages) :
          /\ db[i].text = NoText
          /\ dataFile.messages[k].id = db[i].id
          /\ dataFile.messages[k].content = <<104, 105>>

\* C10: thread keying.  The key of a row is its thread key when that
\* follows the group convention, else its individual identifier, else its
\* thread key, else a key made of its message id.  Two messages of an
\* assembly reference the same contact exactly when their rows have the
\* same key, the contact referenced is in the dataset once, and it is a
\* group contact exactly when the key is a group's thread key.
C10_ThreadKeying ==
    \A rows \in AssemblyRows :
        LET given(s) == s # None /\ s # <<>>
            group(row) == given(row.chat_identifier)
                          /\ Len(row.chat_identifier) >= 4
                          /\ SubSeq(row.chat_identifier, 1, 4) = <<"c", "h", "a", "t">>
            key(row) == IF group(row) THEN row.chat_identifier
                        ELSE IF given(row.contact_identifier) THEN row.contact_identifier
                        ELSE IF given(row.chat_identifier) THEN row.chat_identifier
                        ELSE <<"u", "n", "k", "n", "o", "w", "n", "_">> \o IntStr(row.id)
            emitted(row) == TruthyText(MessageContent(row))
            with_content == SelectSeq(rows, emitted)
            data == extract_messages(rows, mappingsFile)
            refs(k) == {c \in 1..Len(data.contacts) :
                           data.contacts[c].id = data.messages[k].contactId}
        IN  /\ Len(data.messages) = Len(with_content)
            /\ \A i, j \in 1..Len(data.messages) :
                  (data.messages[i].contactId = data.messages[j].contactId)
                     <=> (key(with_content[i]) = key(with_content[j]))
            /\ \A k \in 1..Len(data.messages) :
                  /\ Cardinality(refs(k)) = 1
                  /\ \A c \in refs(k) :
                        data.contacts[c].isGroupChat = group(with_content[k])

\* the snapshot holds two messages of one group thread, one with a sender
\* identifier and one without, and both reference the same group contact
C10_GroupThreadOneContact ==
    /\ dataFile # NoData
    /\ \E i, j \in 1..Len(db), a, b \in 1..Len(dataFile.messages),
          c \in 1..Len(dataFile.contacts) :
          /\ db[i].chat_identifier = Chat1
          /\ db[j].chat_identifier = Chat1
          /\ db[i].contact_identifier = Email1
          /\ db[j].contact_identifier = None
          /\ dataFile.messages[a].id = db[i].id
          /\ dataFile.messages[b].id = db[j].id
          /\ dataFile.messages[a].contactId = dataFile.contacts[c].id
          /\ dataFile.messages[b].contactId = dataFile.contacts[c].id
          /\ dataFile.contacts[c].isGroupChat

(***************************************************************************)
(* Properties of the names the assembler gives, under SpecResolve.         *)
(* Assemblies is the set of calls of extract_messages the commands can     *)
(* make in a state.                                                        *)
(***************************************************************************)

\* C11, as stated: the display name of a contact the assembly creates (its
\* displayName when it has one, else its name) is, of the row that created
\* it, the display name the row carries, else the name the mappings have
\* (for the group thread, or for the handle), else the cleaned form of a
\* handle that is a phone number, else the raw identifier.
C11_DisplayNamePrecedence ==
    \A a \in Assemblies :
        LET given(s) == s # None /\ s # <<>>
            data == extract_messages(a.rows, a.mappings)
            with_content == SelectSeq(a.rows, LAMBDA row : TruthyText(MessageContent(row)))
            first(k) == \A j \in 1..(k - 1) :
                           data.messages[j].contactId # data.messages[k].contactId
            shown(c) == IF given(c.displayName) THEN c.displayName ELSE c.name
            mapped(row) ==
                IF IsGroupChat(row)
                THEN get_group_chat_info(row.chat_identifier, a.mappings)[1]
                ELSE resolve_contact_name(row.contact_identifier, a.mappings)
            expected(row) ==
                IF given(row.chat_display_name) THEN row.chat_display_name
                ELSE IF given(mapped(row)) THEN mapped(row)
                ELSE IF ~IsGroupChat(row) /\ given(row.contact_identifier)
                        /\ LooksLikePhone(row.contact_identifier)
                     THEN clean_phone_number(row.contact_identifier)
                ELSE ContactKey(row)
        IN  \A k \in 1..Len(data.messages) :
                first(k) =>
                    \A c \in 1..Len(data.contacts) :
                        data.contacts[c].id = data.messages[k].contactId
                            => shown(data.contacts[c]) = expected(with_content[k])

\* C11, as amended: for a group thread the order is the display name the
\* row carries, then the display name the mappings have for the thread
\* (kept as displayName, the name staying the thread key), then the thread
\* key; for a one-to-one thread it is the name the mappings have for the
\* handle, then the display name the row carries, then the cleaned form of
\* a handle that is a phone number, then the raw identifier.
C11_DisplayNamePrecedenceByKind ==
    \A a \in Assemblies :
        LET given(s) == s # None /\ s # <<>>
            data == extract_messages(a.rows, a.mappings)
            with_content == SelectSeq(a.rows, LAMBDA row : TruthyText(MessageContent(row)))
            first(k) == \A j \in 1..(k - 1) :
                           data.messages[j].contactId # data.messages[k].contactId
            shown(c) == IF given(c.displayName) THEN c.displayName ELSE c.name
            of_thread(row) == get_group_chat_info(row.chat_identifier, a.mappings)[1]
            of_handle(row) == resolve_contact_name(row.contact_identifier, a.mappings)
            expected(row) ==
                IF IsGroupChat(row)
                THEN IF given(row.chat_display_name) THEN row.chat_display_name
                     ELSE IF given(of_thread(row)) THEN of_thread(row)
                     ELSE row.chat_identifier
                ELSE IF given(of_handle(row)) THEN of_handle(row)
                ELSE IF given(row.chat_display_name) THEN row.chat_display_name
                ELSE IF given(row.contact_identifier)
                        /\ LooksLikePhone(row.contact_identifier)
                     THEN clean_phone_number(row.contact_identifier)
                ELSE ContactKey(row)
        IN  \A k \in 1..Len(data.messages) :
                first(k) =>
                    \A c \in 1..Len(data.contacts) :
                        data.contacts[c].id = data.messages[k].contactId
                            => /\ shown(data.contacts[c]) = expected(with_content[k])
                               /\ IsGroupChat(with_content[k])
                                     /\ ~given(with_content[k].chat_display_name)
                                     => data.contacts[c].name = with_content[k].chat_identifier

\* the snapshot is the assembly of rows whose first is of a one-to-one
\* thread that carries a display name and whose handle the mappings name
\* otherwise
C11_NamedThreadOfKnownHandle ==
    /\ dataFile # NoData
    /\ \E a \in Assemblies :
          /\ dataFile.contacts = extract_messages(a.rows, a.mappings).contacts
          /\ Len(a.rows) >= 1
          /\ ~IsGroupChat(a.rows[1])
          /\ Truthy(a.rows[1].chat_display_name)
          /\ Truthy(resolve_contact_name(a.rows[1].contact_identifier, a.mappings))
          /\ resolve_contact_name(a.rows[1].contact_identifier, a.mappings)
                # a.rows[1].chat_display_name

(***************************************************************************)
(* The contact of a group thread, under SpecAssembly.                      *)
(***************************************************************************)

\* C12: end-to-end group assembly.  When rows with content share a group
\* thread key and the rows of the key that carry a thread display name
\* carry D, the contact the assembly has for the key is shown as D (its
\* displayName when it has one, else its name), counts those rows and is a
\* group contact, whichever of the rows carries D.
C12_GroupAssembly ==
    \A a \in Assemblies :
        LET given(s) == s # None /\ s # <<>>
            data == extract_messages(a.rows, a.mappings)
            with_content == SelectSeq(a.rows, LAMBDA row : TruthyText(MessageContent(row)))
            of_key(k) == {j \in 1..Len(with_content) :
                             ContactKey(with_content[j]) = ContactKey(with_content[k])}
            names(k) == {with_content[j].chat_display_name : j \in
                            {i \in of_key(k) : given(with_content[i].chat_display_name)}}
            shown(c) == IF given(c.displayName) THEN c.displayName ELSE c.name
        IN  \A k \in 1..Len(with_content) :
                IsGroupChat(with_content[k]) =>
                    \A D \in names(k) :
                        names(k) = {D} =>
                            \A c \in 1..Len(data.contacts) :
                                data.contacts[c].id = data.messages[k].contactId
                                    => /\ shown(data.contacts[c]) = D
                                       /\ data.contacts[c].messageCount
                                              = Cardinality(of_key(k))
                                       /\ data.contacts[c].isGroupChat

(***************************************************************************)
(* Properties of the resolver and of the mapping store, under SpecResolve. *)
(***************************************************************************)

C14_OracleWriteBack ==
    \A r \in Runs :
        \A k \in 1..Len(r.resolved) :
            LET phone == r.resolved[k][1]
                name == r.resolved[k][2]
                store == r.mappings.phone_to_name
                digits == Digits(phone)
                canonical == IF Len(digits) = 10 THEN <<"1">> \o digits ELSE digits
                variants == {phone, canonical, <<"+">> \o canonical}
                            \cup (IF Len(canonical) >= 10 THEN {Last10(canonical)} ELSE {})
            IN  \A v \in variants : v \in DOMAIN store /\ store[v] = name

\* C15: no run calls the oracle with an identifier for which the oracle
\* returned a name in an earlier run (whose mappings were saved).
C15_OracleNotAskedAgain ==
    \A r \in Runs : r.asked \cap named = {}

\* C16: the mapping store is append-only.  Every step keeps every key the
\* persisted store has: the identifiers of phone_to_name and the thread
\* keys of group_chats.
C16_StoreAppendOnly ==
    [][/\ DOMAIN mappingsFile.phone_to_name \subseteq DOMAIN mappingsFile'.phone_to_name
       /\ DOMAIN mappingsFile.group_chats \subseteq DOMAIN mappingsFile'.group_chats]_vars

\* the identifiers of the current state: those of the rows of the store,
\* the keys of phone_to_name, and the phones and names of the contacts of
\* the snapshot
Identifiers ==
    {db[k].contact_identifier : k \in 1..Len(db)}
    \cup {db[k].chat_identifier : k \in 1..Len(db)}
    \cup DOMAIN mappingsFile.phone_to_name
    \cup (IF dataFile = NoData THEN {}
          ELSE {dataFile.contacts[c].phone : c \in 1..Len(dataFile.contacts)}
               \cup {dataFile.contacts[c].name : c \in 1..Len(dataFile.contacts)})

\* C17, as stated: each clean_phone_number gives, for an identifier with
\* exactly 10 digits, '1' followed by the digits, for one with 11 digits
\* that start with '1', the digits, and for any other count the bare
\* digits; and applied to its own output it gives the same output.
C17_PhoneNormalizer ==
    \A phone \in Identifiers :
        LET digits == Digits(Str(phone))
            canonical == IF Len(digits) = 10 THEN <<"1">> \o digits ELSE digits
        IN  /\ clean_phone_number(phone) = canonical
            /\ clean_phone_number(clean_phone_number(phone)) = clean_phone_number(phone)
            /\ canonical_digits(phone) = canonical
            /\ canonical_digits(canonical_digits(phone)) = canonical_digits(phone)
            /\ phone # None =>
                  /\ update_clean_phone_number(phone) = canonical
                  /\ update_clean_phone_number(update_clean_phone_number(phone))
                        = update_clean_phone_number(phone)

\* C17, as amended: the canonical digits of an identifier are its digits,
\* with '1' put before exactly 10 of them and any other count left as it
\* is.  clean_phone_number of save_contact_mappings.py and of
\* update_contact_names.py gives the canonical digits; clean_phone_number
\* of imessage_export.py gives '+' followed by the canonical digits, the
\* identifier itself when it has no digit, and the empty string for None.
\* Each gives the same output when applied to its own output.
C17_PhoneNormalizerForms ==
    \A phone \in Identifiers :
        LET digits == IF phone = None THEN <<>> ELSE Digits(phone)
            canonical == IF Len(digits) = 10 THEN <<"1">> \o digits ELSE digits
        IN  /\ clean_phone_number(phone)
                  = IF canonical # <<>> THEN <<"+">> \o canonical
                    ELSE IF phone = None THEN <<>> ELSE phone
            /\ clean_phone_number(clean_phone_number(phone)) = clean_phone_number(phone)
            /\ canonical_digits(phone) = canonical
            /\ canonical_digits(canonical_digits(phone)) = canonical_digits(phone)
            /\ phone # None =>
                  /\ update_clean_phone_number(phone) = canonical
                  /\ update_clean_phone_number(update_clean_phone_number(phone))
                        = update_clean_phone_number(phone)

\* the snapshot has a contact whose phone has exactly 10 digits, named by
\* '+1' and those digits, and the store has a key of 11 digits that start
\* with '1' and a key that has no digit or more than 11
C17_TenDigitHandleCleaned ==
    /\ dataFile # NoData
    /\ \E c \in 1..Len(dataFile.contacts) :
          /\ Len(Digits(dataFile.contacts[c].phone)) = 10
          /\ dataFile.contacts[c].name = <<"+", "1">> \o Digits(dataFile.contacts[c].phone)
    /\ \E key \in DOMAIN mappingsFile.phone_to_name :
          Len(Digits(key)) = 11 /\ Digits(key)[1] = "1"
    /\ \E phone \in Identifiers :
          phone # None /\ (Digits(phone) = <<>> \/ Len(Digits(phone)) > 11)

(***************************************************************************)
(* Properties of the decoder, under SpecDecoder: of what                   *)
(* decode_attributed_body gives for the serialized bodies of the rows of   *)
(* the store.                                                              *)
(***************************************************************************)

\* C18: length-prefixed decode.  For a body made of the anchor, one format
\* marker, a well-formed length descriptor (the byte L below 128; or 0x81,
\* L and a separator; or 0x82, the two bytes of L, low byte first, and a
\* separator) with L between 1 and 10000, and the L bytes of the UTF-8
\* encoding of a text that has no control character (a code point below 32
\* other than newline, tab and carriage return) and no white space at
\* either end, the decoder gives exactly that text.
C18_LengthPrefixedDecode ==
    \A k \in 1..Len(db) :
        \A c \in MarkerBlobs :
            LET L == Len(Utf8Encode(c.text))
                control(ch) == ch < 32 /\ ch \notin {9, 10, 13}
            IN  /\ db[k].attributed_body = Blob(c)
                /\ 1 <= L /\ L <= 10000
                /\ c.shape = "short" => L < 128
                /\ c.shape = "one" => L < 256
                /\ \A i \in 1..Len(c.text) : ~control(c.text[i])
                /\ ~IsSpace(c.text[1]) /\ ~IsSpace(c.text[Len(c.text)])
                => decode_attributed_body(db[k].attributed_body) = c.text

\* the snapshot has the message of a body whose text, with a character of
\* three bytes, has a length of two bytes, and its content is that text
C18_TwoByteLengthDecoded ==
    /\ dataFile # NoData
    /\ \E k \in 1..Len(db), j \in 1..Len(dataFile.messages), c \in MarkerBlobs :
          /\ db[k].attributed_body = Blob(c)
          /\ c.shape = "two"
          /\ c.text = TextEuro
          /\ dataFile.messages[j].id = db[k].id
          /\ dataFile.messages[j].content = TextEuro

\* C19: the decoder is total.  For every body (missing, empty, without the
\* anchor, cut inside a length field or inside the text, not UTF-8) it
\* gives a text or "undecodable", and for a body without the anchor it
\* gives "undecodable".
C19_DecoderTotal ==
    \A k \in 1..Len(db) :
        LET blob == db[k].attributed_body
            decoded == decode_attributed_body(blob)
            anchored == /\ blob # NoText
                        /\ \E i \in 1..(Len(blob) - 7) : SubSeq(blob, i, i + 7) = NSString
        IN  /\ \/ decoded = NoText
               \/ \A i \in 1..Len(decoded) : decoded[i] >= 0
            /\ ~anchored => decoded = NoText

\* the snapshot was assembled from rows whose body has the anchor and a
\* marker and is cut inside the text, and it has no message for them
C19_CutBodyDropped ==
    /\ dataFile # NoData
    /\ Len(db) >= 1
    /\ \A k \in 1..Len(db) :
          /\ db[k].text = NoText
          /\ db[k].attributed_body = NSString \o patterns[3] \o <<5, 104, 105>>
    /\ \E rows \in AssemblyRows :
          /\ Len(rows) = Len(db)
          /\ dataFile.messages = extract_messages(rows, mappingsFile).messages
    /\ dataFile.messages = <<>>

\* C20: sanitization.  A text the decoder gives is never empty, has no
\* control character (a code point below 32 other than newline, tab and
\* carriage return) and no white space at either end; and for a body made
\* around a candidate text it is the candidate up to its first control
\* character, without the white space at either end.
C20_Sanitization ==
    \A k \in 1..Len(db) :
        LET decoded == decode_attributed_body(db[k].attributed_body)
            control(ch) == ch < 32 /\ ch \notin {9, 10, 13}
            cut(t) == LET at == {i \in 1..Len(t) : control(t[i])}
                      IN  IF at = {} THEN t
                          ELSE SubSeq(t, 1, (CHOOSE i \in at : \A j \in at : i <= j) - 1)
            trimmed(t) == LET kept == {i \in 1..Len(t) : ~IsSpace(t[i])}
                          IN  IF kept = {} THEN <<>>
                              ELSE SubSeq(t, CHOOSE i \in kept : \A j \in kept : i <= j,
                                             CHOOSE i \in kept : \A j \in kept : i >= j)
        IN  /\ decoded # NoText =>
                  /\ decoded # <<>>
                  /\ \A i \in 1..Len(decoded) : ~control(decoded[i])
                  /\ ~IsSpace(decoded[1]) /\ ~IsSpace(decoded[Len(decoded)])
            /\ \A c \in MarkerBlobs \cup ScanBlobs :
                  db[k].attributed_body = Blob(c) /\ trimmed(cut(c.text)) # <<>>
                     => decoded = trimmed(cut(c.text))

\* the snapshot has the message of a body whose candidate is "hi\x00wo",
\* and its content is "hi"
C20_TruncatedAtControl ==
    /\ dataFile # NoData
    /\ \E k \in 1..Len(db), j \in 1..Len(dataFile.messages), c \in MarkerBlobs :
          /\ db[k].attributed_body = Blob(c)
          /\ c.text = TextHiNulWo
          /\ dataFile.messages[j].id = db[k].id
          /\ dataFile.messages[j].content = TextHi

\* the text announced at offset i: the bytes that follow the length byte,
\* decoded
ScanText(blob, i) == Utf8Decode(Slice(blob, i + 1, i + 1 + At(blob, i)))

\* the candidates of the scan: the offsets it examines whose length byte is
\* in [2, 200], whose bytes are in the body and decode as strict UTF-8,
\* whose text has an alphanumeric character and does not start with "NS"
\* or "__"
ScanCandidates(blob) ==
    LET start == Find(blob, NSString, 0) + 8
    IN  {i \in start..(start + 99) :
           /\ i < Len(blob) - 10
           /\ 2 <= At(blob, i) /\ At(blob, i) <= 200
           /\ i + 1 + At(blob, i) <= Len(blob)
           /\ ScanText(blob, i) # Invalid
           /\ \E k \in 1..Len(ScanText(blob, i)) : IsAlnum(ScanText(blob, i)[k])
           /\ ~StartsWith(ScanText(blob, i), <<78, 83>>)
           /\ ~StartsWith(ScanText(blob, i), <<95, 95>>)}

\* C25: the fallback scan.  When no format marker yields a text, the result
\* is determined by the first (lowest-offset) candidate among at most 100
\* offsets past the anchor: its sanitized text is returned, or
\* "undecodable" if its sanitized text is empty (and "undecodable" when
\* there is no candidate).
C25_FallbackScan ==
    \A k \in 1..Len(db) :
        LET blob == db[k].attributed_body
            \* the body has the anchor and no format marker yields a text
            Scanned ==
                /\ TruthyText(blob)
                /\ Find(blob, NSString, 0) # -1
                /\ \A p \in 1..Len(patterns) :
                      TryPattern(blob, Find(blob, NSString, 0), patterns[p]) = NoText
        IN  Scanned =>
              decode_attributed_body(blob) =
                 IF ScanCandidates(blob) = {} THEN NoText
                 ELSE IF CleanText(ScanText(blob, Min(ScanCandidates(blob)))) = <<>>
                      THEN NoText
                      ELSE CleanText(ScanText(blob, Min(ScanCandidates(blob))))

\* C25, amended: the result is the sanitized text of the first candidate
\* whose sanitized text has at least 2 characters; a candidate whose
\* sanitized text is shorter is passed over and the scan goes on;
\* "undecodable" when no candidate has such a text.
C25_FallbackScanPassesOver ==
    \A k \in 1..Len(db) :
        LET blob == db[k].attributed_body
            accepted == {i \in ScanCandidates(blob) :
                            Len(CleanText(ScanText(blob, i))) >= 2}
            Scanned ==
                /\ TruthyText(blob)
                /\ Find(blob, NSString, 0) # -1
                /\ \A p \in 1..Len(patterns) :
                      TryPattern(blob, Find(blob, NSString, 0), patterns[p]) = NoText
        IN  Scanned =>
              decode_attributed_body(blob) =
                 IF accepted = {} THEN NoText
                 ELSE CleanText(ScanText(blob, Min(accepted)))

\* the snapshot has the message of a body whose first candidate, "\x01ab",
\* is sanitized to nothing, and its content is the text of the candidate
\* four offsets further, "hi"; and the store has a body whose only text is
\* past the 100th offset
C25_LaterCandidateReturned ==
    /\ dataFile # NoData
    /\ \E k \in 1..Len(db), j \in 1..Len(dataFile.messages) :
          /\ db[k].attributed_body = BlobSkipEmpty
          /\ CleanText(ScanText(BlobSkipEmpty, Min(ScanCandidates(BlobSkipEmpty)))) = <<>>
          /\ dataFile.messages[j].id = db[k].id
          /\ dataFile.messages[j].content = TextHi

(***************************************************************************)
(* Properties of the statistics, under SpecStatistics.                     *)
(***************************************************************************)

\* C21: StatisticsAggregator.  In the statistics of every dataset the
\* commands assemble, and of the snapshot, messagesSent is the number of
\* messages sent by the user, messagesReceived the number of the others,
\* their sum is totalMessages and the length of the list, and the 24
\* hourly counts add up to the number of messages that have a date.
C21_StatisticsCounts ==
    LET counts(messages, statistics) ==
           LET n == Len(messages)
               out == Cardinality({k \in 1..n : messages[k].isFromMe})
               in == Cardinality({k \in 1..n : ~messages[k].isFromMe})
               dated == Cardinality({k \in 1..n : messages[k].date # NoDate})
           IN  /\ statistics.messagesSent = out
               /\ statistics.messagesReceived = in
               /\ statistics.messagesSent + statistics.messagesReceived
                     = statistics.totalMessages
               /\ statistics.totalMessages = n
               /\ DOMAIN statistics.hourlyDistribution = 0..23
               /\ SumSeq([h \in 1..24 |-> statistics.hourlyDistribution[h - 1]]) = dated
    IN  /\ dataFile # NoData => counts(dataFile.messages, dataFile.statistics)
        /\ \A a \in Assemblies :
              With(extract_messages(a.rows, a.mappings), LAMBDA data :
                 counts(data.messages, data.statistics))

\* the snapshot has a message sent, a message received and a message
\* without a date, and its hourly counts add up to less than its messages
C21_UndatedMessageCounted ==
    /\ dataFile # NoData
    /\ \E i, j, k \in 1..Len(dataFile.messages) :
          /\ dataFile.messages[i].isFromMe
          /\ ~dataFile.messages[j].isFromMe /\ dataFile.messages[j].date # NoDate
          /\ dataFile.messages[k].date = NoDate
    /\ dataFile.statistics.totalMessages = Len(dataFile.messages)
    /\ SumSeq([h \in 1..24 |-> dataFile.statistics.hourlyDistribution[h - 1]])
          < Len(dataFile.messages)

(***************************************************************************)
(* The name of a contact is never empty, under SpecAssembly.               *)
(***************************************************************************)

\* C22: the fallback chain of the display name ends in a usable string.
\* Every contact an assembly has, and the contact made of a row with any
\* combination of handle, thread key and thread display name under the
\* mappings of the store or other contents of phone_to_name, has a name
\* that is not empty; when the row has no display name, the mappings have
\* no name for it and its handle is not a phone number, the name is the
\* raw identifier or the key made of the message id.
C22_NameNeverEmpty ==
    LET given(s) == s # None /\ s # <<>>
        raw(row) ==
            IF given(row.chat_identifier) /\ StartsWith(row.chat_identifier,
                                                        <<"c", "h", "a", "t">>)
            THEN row.chat_identifier
            ELSE IF given(row.contact_identifier) THEN row.contact_identifier
            ELSE IF given(row.chat_identifier) THEN row.chat_identifier
            ELSE <<"u", "n", "k", "n", "o", "w", "n", "_">> \o IntStr(row.id)
        unnamed(row, mappings) ==
            /\ ~given(row.chat_display_name)
            /\ ~given(resolve_contact_name(row.contact_identifier, mappings))
            /\ ~(given(row.contact_identifier) /\ LooksLikePhone(row.contact_identifier))
    IN  /\ \A a \in Assemblies :
              With(extract_messages(a.rows, a.mappings), LAMBDA data :
                 \A c \in 1..Len(data.contacts) : given(data.contacts[c].name))
        /\ \A store \in ContactStores \cup {mappingsFile.phone_to_name} :
              With([mappingsFile EXCEPT !.phone_to_name = store], LAMBDA mappings :
                 \A row \in ContactRows :
                    With(NewContact(row, mappings, 1), LAMBDA contact :
                       /\ given(contact.name)
                       /\ unnamed(row, mappings) => contact.name = raw(row)))

\* the snapshot has a contact of a row without handle and thread key, named
\* by the key made of the message id, and a contact named by a thread key
C22_NamedByFallbackKey ==
    /\ dataFile # NoData
    /\ \E i \in 1..Len(db), c, d \in 1..Len(dataFile.contacts) :
          /\ db[i].contact_identifier = None
          /\ db[i].chat_identifier = None
          /\ dataFile.contacts[c].name
                = <<"u", "n", "k", "n", "o", "w", "n", "_">> \o IntStr(db[i].id)
          /\ dataFile.contacts[d].name = Phone1

(***************************************************************************)
(* The synthesized name of a group thread, under SpecGroups.               *)
(***************************************************************************)
\* the four lookup variants of an identifier: the identifier, its canonical
\* digits, '+' and its canonical digits, and the last ten digits when there
\* are at least ten
LookupVariants(participant) ==
    LET canon == canonical_digits(participant)
    IN  <<participant, canon, <<"+">> \o canon>>
        \o (IF Len(canon) >= 10 THEN <<Last10(canon)>> ELSE <<>>)

\* the name the store has under the first variant it has a name for
VariantName(phone_to_name, participant) ==
    LET variants == LookupVariants(participant)
        hits == {k \in 1..Len(variants) : Truthy(Get(phone_to_name, variants[k]))}
    IN  IF hits = {} THEN None ELSE phone_to_name[variants[Min(hits)]]

\* C26: group display-name synthesis.  For every thread of the table that
\* cmd_full_export queries and resolves against the store: a thread with a
\* display name of its own is shown by it; otherwise, with the names of its
\* participants that resolve through the four lookup variants taken in
\* participant order, it has no synthesized name when none resolves, and
\* else the first 4 names joined by ', ', followed by ' +N more' exactly
\* when more than 4 resolve, N being their number less 4.
C26_GroupNameSynthesis ==
    LET table == resolve_participant_names(chats, mappingsFile.phone_to_name)
        mappings == [mappingsFile EXCEPT !.group_chats = table]
    IN  \A chat \in DOMAIN chats :
           LET info == chats[chat]
               names == SelectSeq([k \in 1..Len(info.participants) |->
                                      VariantName(mappingsFile.phone_to_name,
                                                  info.participants[k])],
                                  Truthy)
               n == Len(names)
               shown == get_group_chat_info(chat, mappings)[1]
           IN  /\ get_group_chat_info(chat, mappings)[2] = info.participants
               /\ IF Truthy(info.display_name) THEN shown = info.display_name
                  ELSE IF n = 0 THEN shown = None
                  ELSE IF n <= 4 THEN shown = Join(names)
                  ELSE shown = Join(SubSeq(names, 1, 4)) \o <<" ", "+">> \o IntStr(n - 4)
                                  \o <<" ", "m", "o", "r", "e">>

\* the persisted store has, written by a full export, the thread of six
\* participants with the name "Bo, Al, Cy, Di +1 more", the thread of four
\* with "Bo, Al, Cy, Di", and the thread of a stranger with no name
C26_FifthNameCounted ==
    /\ dataFile # NoData
    /\ DOMAIN mappingsFile.group_chats = {Chat1, <<"c", "h", "a", "t", "2">>, <<"c", "h", "a", "t", "3">>, <<"c", "h", "a", "t", "4">>}
    /\ mappingsFile.group_chats[Chat1].resolved_display_name =
          <<"B", "o", ",", " ", "A", "l", ",", " ", "C", "y", ",", " ", "D", "i",
            " ", "+", "1", " ", "m", "o", "r", "e">>
    /\ mappingsFile.group_chats[<<"c", "h", "a", "t", "2">>].resolved_display_name =
          <<"B", "o", ",", " ", "A", "l", ",", " ", "C", "y", ",", " ", "D", "i">>
    /\ mappingsFile.group_chats[<<"c", "h", "a", "t", "3">>].resolved_display_name = None

\* C29: the resolution of individual names never changes a group contact.
\* After resolve_unresolved_contacts, and after the contacts command, every
\* contact with isGroupChat true has the name it had before, also when its
\* phone field is an identifier the oracle resolved.
C29_GroupNameKept ==
    LET
        \* every renaming of contacts that can happen in the current state: the
        \* dataset before and after resolve_unresolved_contacts in step 5 of
        \* cmd_full_export and in the merge of cmd_update, and before and after
        \* cmd_contacts
        Resolutions ==
            { With([mappingsFile EXCEPT !.group_chats =
                       resolve_participant_names(chats, mappingsFile.phone_to_name)],
                   LAMBDA mappings2 :
              With(extract_messages(rows, mappings2), LAMBDA data :
              With([mappings2 EXCEPT !.phone_to_name =
                       SaveNewMappings(mappings2.phone_to_name, data.contacts, 1)],
                   LAMBDA mappings4 :
                 [before |-> data.contacts,
                  after |-> resolve_unresolved_contacts(data, mappings4, 100, env.directory,
                                                        answers).data.contacts]))) :
                rows \in QueryResults(db, NoSince, MESSAGE_LIMIT, env.tz),
                answers \in SUBSET (DOMAIN env.directory) }
            \cup { [before |-> MergedDataset(dataFile, u.new_data).contacts,
                    after |-> u.data.contacts] : u \in {v \in Updates : v.outcome = "update_merged"} }
            \cup (IF load_data(dataFile) = NoData THEN {}
                  ELSE { [before |-> dataFile.contacts,
                          after |-> Contacts(dataFile, mappingsFile, env.directory,
                                             answers).data.contacts] :
                           answers \in SUBSET (DOMAIN env.directory) })
    IN  \A r \in Resolutions :
           /\ Len(r.after) = Len(r.before)
           /\ \A k \in 1..Len(r.before) :
                 r.before[k].isGroupChat => r.after[k].name = r.before[k].name

(***************************************************************************)
(* The keys a name is resolved from.                                       *)
(***************************************************************************)
\* C30: resolve_contact_name returns a name only from a key of the store
\* that is one of the four lookup variants of the queried identifier (the
\* identifier, its canonical digits, '+' and its canonical digits, its last
\* 10 digits when there are at least 10), so that an identifier is never
\* resolved through the canonical or '+'-prefixed key of an identifier with
\* other canonical digits; and an identifier with no digits resolves only
\* when it is itself a key.
C30_ResolvedByOwnVariant ==
    \A a \in Assemblies :
        \A k \in 1..Len(a.rows) :
            LET phone == a.rows[k].contact_identifier
                store == a.mappings.phone_to_name
                name == resolve_contact_name(phone, a.mappings)
                own == {LookupVariants(phone)[i] : i \in 1..Len(LookupVariants(phone))}
                         \cap DOMAIN store
            IN  name # None =>
                   /\ \E key \in own : store[key] = name
                   /\ Digits(Str(phone)) = <<>> => HasKey(store, phone) /\ name = store[phone]

(***************************************************************************)
(* References from messages to contacts, under Spec.                       *)
(***************************************************************************)
\* C27: after any sequence of assemblies and merges the contact ids of the
\* dataset are pairwise distinct and every message references exactly one
\* contact; so it is for the snapshot on disk and for every dataset an
\* update can assemble or merge next.
C27_ReferencesResolve ==
    LET ReferencesResolve(data) ==
            /\ \A a, b \in 1..Len(data.contacts) :
                  data.contacts[a].id = data.contacts[b].id => a = b
            /\ \A j \in 1..Len(data.messages) :
                  Cardinality({c \in 1..Len(data.contacts) :
                                 data.contacts[c].id = data.messages[j].contactId}) = 1
    IN  /\ dataFile # NoData => ReferencesResolve(dataFile)
        /\ \A u \in Updates :
              ReferencesResolve(u.new_data) /\ ReferencesResolve(u.data)

\* the snapshot is the result of a merge in which the ids of the new run
\* overlapped those of the snapshot: it has two contacts, and more messages
\* reference one of them than its assembly counted
C27_MergedWithOverlap ==
    /\ dataFile # NoData
    /\ Len(dataFile.contacts) >= 2
    /\ \E k \in 1..Len(dataFile.contacts) :
          dataFile.contacts[k].messageCount <
             Cardinality({j \in 1..Len(dataFile.messages) :
                             dataFile.messages[j].contactId = dataFile.contacts[k].id})

\* C28: attribution is preserved by merge.  Every message an update admits
\* references, in the merged dataset, a contact of the same thread as the
\* contact it references in the freshly assembled dataset.  A contact does
\* not record the key it was made for: it is told by what the assembler
\* derives from the first row of the key, isGroupChat and phone, which the
\* rows of these environments fix one-to-one by the key.
C28_AttributionPreserved ==
    LET SameThread(c, d) == c.isGroupChat = d.isGroupChat /\ c.phone = d.phone
    IN
    \A u \in Updates :
        u.outcome = "update_merged" =>
           \A m \in {NewMessages(dataFile.messages, u.new_data.messages)[j] :
                       j \in 1..Len(NewMessages(dataFile.messages, u.new_data.messages))} :
              \A c \in 1..Len(u.new_data.contacts), d \in 1..Len(u.data.contacts) :
                 /\ u.new_data.contacts[c].id = m.contactId
                 /\ u.data.contacts[d].id = m.contactId
                 => SameThread(u.new_data.contacts[c], u.data.contacts[d])

(***************************************************************************)
(* An update without a usable snapshot, under SpecSnapshot.                *)
(***************************************************************************)
\* C23: when the prior snapshot is missing, cannot be read or cannot be
\* parsed, an update ends with a persisted dataset, and that dataset is the
\* full extraction: assembled from the rows of the query without a 'since'
\* filter, with nothing of the prior content merged in.
C23_UpdateWithoutSnapshot ==
    LET
        \* every way cmd_update can run in the current state when load_data
        \* returns None: the rows the full query returns, the dataset
        \* cmd_full_export assembles from them and the snapshot file afterwards
        FullUpdates ==
            IF load_data(dataFile) # NoData THEN {}
            ELSE { [rows |-> rows,
                    data |-> FullExport(mappingsFile, chats, rows, env.directory, answers,
                                        env.attachments).data,
                    file |-> save_data(dataFile,
                                       FullExport(mappingsFile, chats, rows, env.directory,
                                                  answers, env.attachments).data)] :
                     rows \in QueryResults(db, NoSince, MESSAGE_LIMIT, env.tz),
                     answers \in SUBSET (DOMAIN env.directory) }
    IN  \A u \in FullUpdates :
           /\ u.file \notin {NoData, Garbled, Unreadable}
           /\ u.file = u.data
           /\ u.rows \in QueryResults(db, NoSince, MESSAGE_LIMIT, env.tz)

(***************************************************************************)
(* The writes of the mapping store in one run, under SpecSnapshot.         *)
(***************************************************************************)
\* the stores save_mappings writes during cmd_full_export, in order: in
\* step 2 with the group threads just queried, in step 4 when a name of the
\* dataset was new to the store, and in step 5 inside
\* resolve_unresolved_contacts when the oracle resolved something
FullExportWrites(mappings, chat_table, rows, directory, answers) ==
    With([mappings EXCEPT !.group_chats =
             resolve_participant_names(chat_table, mappings.phone_to_name)],
         LAMBDA mappings2 :
    With(extract_messages(rows, mappings2), LAMBDA data :
    With([mappings2 EXCEPT !.phone_to_name =
             SaveNewMappings(mappings2.phone_to_name, data.contacts, 1)],
         LAMBDA mappings4 :
    With(resolve_unresolved_contacts(data, mappings4, 100, directory, answers),
         LAMBDA r :
       <<mappings2>>
       \o (IF mappings4 # mappings2 THEN <<mappings4>> ELSE <<>>)
       \o (IF r.saved THEN <<r.mappings>> ELSE <<>>)))))

\* C24: in every run the mapping store is written exactly once, and a run
\* that fails midway leaves the persisted store as it was at the start of
\* the run.
C24_StoreWrittenOnce ==
    LET
        \* every run of cmd_full_export (asked for, or started by cmd_update
        \* without a snapshot) that can happen in the current state: the stores it
        \* writes, and whether it fails in step 7, after them
        MappingWrites ==
            { [writes |-> FullExportWrites(mappingsFile, chats, rows, env.directory, answers),
               failed |-> save_data(dataFile, NoData) = dataFile /\ dataFile # NoData] :
                 rows \in QueryResults(db, NoSince, MESSAGE_LIMIT, env.tz),
                 answers \in SUBSET (DOMAIN env.directory) }
    IN  \A w \in MappingWrites :
           /\ Len(w.writes) = 1
           /\ w.failed => w.writes[Len(w.writes)] = mappingsFile

=============================================================================
